---- MODULE Spec2Model ----
(***************************************************************************)
(* A model of the backtesting core of auto-trade2:                         *)
(*   BacktestEngine / ImprovedBacktestEngine  (run, processSignal,          *)
(*   openPosition, closePosition, drawdown, summary, Kelly sizing),         *)
(*   StrategyOptimizer (genetic search).                                    *)
(* JavaScript numbers are modelled by exact rationals <<n, d>> (d > 0,      *)
(* lowest terms); the three IEEE specials a division by zero produces are   *)
(* <<0,0>> (NaN), <<1,0>> (+Infinity) and <<-1,0>> (-Infinity).             *)
(***************************************************************************)
EXTENDS Integers, Sequences, FiniteSets, TLC

(***************************************************************************)
(* Bounds of the model.                                                    *)
(***************************************************************************)
NumCandles == 2
MaxSignals == 2
MaxRuns == 2
MaxTrades == 10
MaxSummaryTrades == 4
MaxMcTrades == 3
MaxRise == 10
MaxDay == 32
MaxRiskTrades == 3
MaxSeriesLen == 6
MonteCarloSimulations == 3
PopulationSize == 3
Generations == 2

(***************************************************************************)
(* Exact rational arithmetic.                                              *)
(***************************************************************************)
Abs(x) == IF x < 0 THEN -x ELSE x

RECURSIVE Gcd(_, _)
Gcd(a, b) == IF b = 0 THEN a ELSE Gcd(b, a % b)

Lcm(a, b) == (a \div Gcd(a, b)) * b

\* n/d in lowest terms, d > 0 (d # 0 required)
Rat(n, d) ==
  IF d = 1 \/ n = 0 THEN <<n, 1>>
  ELSE LET g == Gcd(Abs(n), Abs(d))
           s == IF d < 0 THEN -1 ELSE 1
       IN  <<(s * n) \div g, (s * d) \div g>>

RInt(n) == <<n, 1>>
Zero == RInt(0)
One == RInt(1)
NaN == <<0, 0>>
PosInf == <<1, 0>>
NegInf == <<-1, 0>>

IsNaN(x) == x = NaN
IsFinite(x) == x[2] # 0

RNeg(x) == <<-x[1], x[2]>>

RAdd(x, y) ==
  IF x[2] = y[2] THEN Rat(x[1] + y[1], x[2])
  ELSE LET l == Lcm(x[2], y[2])
       IN  Rat(x[1] * (l \div x[2]) + y[1] * (l \div y[2]), l)

RSub(x, y) == RAdd(x, RNeg(y))

RMul(x, y) ==
  IF x[1] = 0 \/ y[1] = 0 THEN Zero
  ELSE LET g1 == Gcd(Abs(x[1]), y[2])
           g2 == Gcd(Abs(y[1]), x[2])
       IN  Rat((x[1] \div g1) * (y[1] \div g2), (x[2] \div g2) * (y[2] \div g1))

\* y # 0
RDiv(x, y) == RMul(x, Rat(y[2], y[1]))

RLt(x, y) ==
  LET l == Lcm(x[2], y[2])
  IN  x[1] * (l \div x[2]) < y[1] * (l \div y[2])

RLe(x, y) == x = y \/ RLt(x, y)
RGt(x, y) == RLt(y, x)
RGe(x, y) == RLe(y, x)
RAbs(x) == <<Abs(x[1]), x[2]>>
RMax(x, y) == IF RLt(x, y) THEN y ELSE x

(***************************************************************************)
(* IEEE arithmetic where the code can divide by zero (the Kelly formula):  *)
(* operands are finite rationals or NaN / +Infinity / -Infinity.           *)
(***************************************************************************)
Sign(x) == IF x[1] > 0 THEN 1 ELSE IF x[1] < 0 THEN -1 ELSE 0

\* x / y as JavaScript computes it
FDiv(x, y) ==
  IF IsNaN(x) \/ IsNaN(y) THEN NaN
  ELSE IF ~IsFinite(x) /\ ~IsFinite(y) THEN NaN
  ELSE IF ~IsFinite(x) THEN (IF Sign(y) < 0 THEN RNeg(x) ELSE x)
  ELSE IF ~IsFinite(y) THEN Zero
  ELSE IF y = Zero THEN (IF x = Zero THEN NaN ELSE <<Sign(x), 0>>)
  ELSE RDiv(x, y)

\* x - y
FSub(x, y) ==
  IF IsNaN(x) \/ IsNaN(y) THEN NaN
  ELSE IF ~IsFinite(x) /\ ~IsFinite(y) THEN (IF x = y THEN NaN ELSE x)
  ELSE IF ~IsFinite(x) THEN x
  ELSE IF ~IsFinite(y) THEN RNeg(y)
  ELSE RSub(x, y)

\* x * y
FMul(x, y) ==
  IF IsNaN(x) \/ IsNaN(y) THEN NaN
  ELSE IF IsFinite(x) /\ IsFinite(y) THEN RMul(x, y)
  ELSE IF Sign(x) * Sign(y) = 0 THEN NaN
  ELSE <<Sign(x) * Sign(y), 0>>

\* x < y (false when either side is NaN)
FLt(x, y) ==
  IF IsNaN(x) \/ IsNaN(y) THEN FALSE
  ELSE IF x = y THEN FALSE
  ELSE IF x = NegInf \/ y = PosInf THEN TRUE
  ELSE IF x = PosInf \/ y = NegInf THEN FALSE
  ELSE RLt(x, y)

\* Math.max / Math.min: NaN when an argument is NaN
FMax(x, y) == IF IsNaN(x) \/ IsNaN(y) THEN NaN ELSE IF FLt(x, y) THEN y ELSE x
FMin(x, y) == IF IsNaN(x) \/ IsNaN(y) THEN NaN ELSE IF FLt(y, x) THEN y ELSE x


\* x + y
FAdd(x, y) == FSub(x, FSub(Zero, y))

FLe(x, y) == ~IsNaN(x) /\ ~IsNaN(y) /\ (x = y \/ FLt(x, y))
FGt(x, y) == FLt(y, x)
FGe(x, y) == FLe(y, x)

\* Math.abs
\* x === y for numbers
FEq(x, y) == ~IsNaN(x) /\ ~IsNaN(y) /\ x = y

FAbs(x) == <<Abs(x[1]), x[2]>>

RECURSIVE SumProfit(_)
SumProfit(ts) ==
  IF ts = <<>> THEN Zero ELSE FAdd(SumProfit(SubSeq(ts, 1, Len(ts) - 1)), ts[Len(ts)].profit)

(***************************************************************************)
(* Configuration of the engine under test (the options the constructor     *)
(* takes).  Prices, rates and percentages are small exact rationals.       *)
(***************************************************************************)
InitialBalance == RInt(1024)
Fee == Rat(1, 8)
Slippage == Rat(1, 3)
StopLossPercent == RInt(50)
TakeProfitPercent == RInt(50)
PositionSizePercent == RInt(200)
AtrPeriod == 2
AtrMultiplier == RInt(2)
MaxRiskPerTradePercent == RInt(50)
VolatilityLookback == 2
Hundred == RInt(100)

\* Number.MAX_SAFE_INTEGER (2^53 - 1) exceeds the integers of the checker; it is
\* only ever stored and compared, so the largest available integer stands for it.
MaxSafeInteger == RInt(2147483647)

\* candles: high, low, close (time is the index of the candle)
Candle(h, l, c) == [high |-> RInt(h), low |-> RInt(l), close |-> RInt(c)]
CandleSet == {Candle(12, 12, 12), Candle(24, 6, 12), Candle(24, 12, 24), Candle(6, 3, 6)}
SignalPrices == {RInt(12), RInt(24)}
SignalTypes == {"BUY", "SELL"}

\* the strategies handed to run: a well-behaved one, null, an object without
\* generateBacktestSignals, one whose generateBacktestSignals throws, one that
\* returns undefined, and one whose signal array holds a null entry
StrategyKinds == {"valid", "null", "noFunction", "throws", "returnsUndefined", "nullSignal"}

\* engine variants: [improved, useDynamicParameters, useAtrPositionSizing]
Profiles ==
  { [improved |-> FALSE, useDynamicParameters |-> FALSE, useAtrPositionSizing |-> FALSE],
    [improved |-> FALSE, useDynamicParameters |-> FALSE, useAtrPositionSizing |-> TRUE],
    [improved |-> TRUE, useDynamicParameters |-> FALSE, useAtrPositionSizing |-> FALSE],
    [improved |-> TRUE, useDynamicParameters |-> TRUE, useAtrPositionSizing |-> FALSE] }

NoPosition == [type |-> "NONE"]

VARIABLES
  candles,             \* the candles handed to run
  signals,             \* what strategy.generateBacktestSignals returns
  strategyKind,        \* the kind of strategy object handed to run
  profile,             \* engine class and option flags
  stopLossPercent,     \* this.stopLossPercent
  takeProfitPercent,   \* this.takeProfitPercent
  positionSizePercent, \* this.positionSizePercent
  currentBalance,      \* this.currentBalance
  trades,              \* this.trades
  equity,              \* this.equity
  maxDrawdown,         \* this.maxDrawdown
  position,            \* this.position
  pc,                  \* where run is
  ci,                  \* the candle index i of run's loop
  sk,                  \* how many entries of signals the loop body has passed for candle ci
  result,              \* what run returned
  runNo,               \* number of the current call of run on this instance
  firstResult,         \* what the first call returned
  opens,               \* history: executions of openPosition in the current run
  fills,               \* history: the fills of the current run, [side, raw, fill]
  kellyOut,            \* what calculateKellyCriterion returned
  optPc,               \* where optimize is
  fitTable,            \* per ParameterSet: the fitness its backtest yields, or "fail"
  population,          \* optimize: population
  evalIdx,             \* optimize: position of the inner loop in population (1-based)
  results,             \* optimize: results
  gen,                 \* optimize: gen
  nextGeneration,      \* generateNextGeneration: nextGeneration
  best,                \* optimize: bestParams and the fitness of bestResult
  genBest,             \* history: per evaluated generation, the best fitness found in it
  optResult,           \* what optimize returned
  evaluated,           \* history: the set of the {params, fitness} optimize has pushed to results
  mcPc,                \* where runMonteCarloSimulation is
  finalEquities,       \* runMonteCarloSimulation: finalEquities
  mcOut,               \* what runMonteCarloSimulation returned
  ctorParams,         \* the params given to new MovingAverageCrossover
  strategy,            \* the MovingAverageCrossover instance, once constructed
  stPc,                \* "new", "constructed", "rejected" (the constructor threw), "generated"
  stats,               \* RiskManager: this.stats
  now,                 \* the day new Date() falls on, counted from 1 January
  recorded,            \* history: the day and the profit of every trade recordTrade took
  allowed,             \* what recordTrade returned, "none" when it was not the last call
  cancelAt,            \* history: <<gen, evalIdx>> when the caller asked optimize to stop
  sessions,            \* auth.js: sessions, its own properties
  inheritedExpires,    \* auth.js: expires of the object sessions inherits, <<>> when undefined
  clock,               \* Date.now(), in quarters of an hour since the module was loaded
  lastCleanup,         \* the time of the last run of the cleanup interval
  issued,              \* history: the session ids login has returned
  ended,               \* history: the session ids logged out or rejected as expired
  lastAuth,            \* history: the cookie and the outcome of the last sessionAuth
  callPc,              \* executeApiCall: "idle", "attempt", "waiting", "resolved", "rejected"
  retries,             \* executeApiCall: retries of the innermost call
  callRetries,         \* history: retries of the outermost call
  attempts,            \* history: how often apiCall was called
  delays,              \* history: the retryDelay of every wait, in ms
  errors,              \* history: the code of every error apiCall threw, <<>> for none
  thrown,              \* the code of the error executeApiCall threw
  isInitializing,      \* part_000: isInitializing
  initializationQueue, \* part_000: initializationQueue
  client,              \* part_000: client, as the options it was created from
  callers,             \* per call of reinitialize: where it is, its options, what it got
  candlesPc,           \* getCandles: "idle", "single", "fetch", "done", "failed"
  market,              \* the open times of the candles the exchange has
  endTime,             \* getCandles: endTime
  currentStartTime,    \* getCandles: currentStartTime
  errorCount,          \* getCandles: errorCount
  allCandles,          \* getCandles: allCandles, as the open times of the candles
  served               \* history: <<start, end>> of every chunk request that succeeded

engineVars ==
  <<candles, signals, strategyKind, profile, stopLossPercent, takeProfitPercent,
    positionSizePercent, currentBalance, trades, equity, maxDrawdown, position,
    pc, ci, sk, result, runNo, firstResult, opens, fills>>

optVars ==
  <<optPc, fitTable, population, evalIdx, results, gen, nextGeneration, best, genBest,
    optResult>>

mcVars == <<mcPc, finalEquities, mcOut>>

\* the state outside the backtest engine's own run and the optimizer
stratVars == <<ctorParams, strategy, stPc>>

riskVars == <<stats, now, recorded, allowed>>

authVars == <<sessions, inheritedExpires, clock, lastCleanup, issued, ended, lastAuth>>

callVars == <<callPc, retries, callRetries, attempts, delays, errors, thrown>>

reinitVars == <<isInitializing, initializationQueue, client, callers>>

candleVars ==
  <<candlesPc, market, endTime, currentStartTime, errorCount, allCandles, served>>

apiVars == <<callVars, reinitVars, candleVars>>

\* the state of the modules around the backtesting classes
serviceVars == <<authVars, apiVars>>

moreVars == <<mcVars, stratVars, evaluated, riskVars, cancelAt, serviceVars>>

\* the engine object as one record
Engine ==
  [ currentBalance |-> currentBalance, trades |-> trades, equity |-> equity,
    maxDrawdown |-> maxDrawdown, position |-> position,
    stopLossPercent |-> stopLossPercent, takeProfitPercent |-> takeProfitPercent,
    positionSizePercent |-> positionSizePercent,
    useAtrPositionSizing |-> profile.useAtrPositionSizing,
    opens |-> opens, fills |-> fills ]

(***************************************************************************)
(* BacktestEngine: pure parts.                                             *)
(***************************************************************************)
\* mutant of AdjustPrice: the side of the fill is ignored
AdjustPriceNoSide(price, type) == FMul(price, FSub(One, Slippage))

AdjustPrice(price, type) ==
  IF type = "BUY" THEN FMul(price, FAdd(One, Slippage))
  ELSE FMul(price, FSub(One, Slippage))

IsWinning(t) == FGt(t.profit, Zero)
IsLosing(t) == FLe(t.profit, Zero)

\* Array.prototype.slice(-n)
LastN(ts, n) == IF Len(ts) <= n THEN ts ELSE SubSeq(ts, Len(ts) - n + 1, Len(ts))

KellyMinTrades == 10
KellyWindow == 30

CalculateKellyCriterion(ts) ==
  IF Len(ts) < KellyMinTrades THEN Rat(1, 2)
  ELSE
    LET recentTrades == LastN(ts, KellyWindow)
        winningTrades == SelectSeq(recentTrades, IsWinning)
        winRate == FDiv(RInt(Len(winningTrades)), RInt(Len(recentTrades)))
        avgWin == IF Len(winningTrades) > 0
                  THEN FDiv(SumProfit(winningTrades), RInt(Len(winningTrades)))
                  ELSE Zero
        losingTrades == SelectSeq(recentTrades, IsLosing)
        avgLoss == IF Len(losingTrades) > 0
                   THEN FDiv(FAbs(SumProfit(losingTrades)), RInt(Len(losingTrades)))
                   ELSE One
        payoffRatio == FDiv(avgWin, avgLoss)
        kelly == FSub(winRate, FDiv(FSub(One, winRate), payoffRatio))
        half == FDiv(kelly, RInt(2))
    IN  FMin(FMax(half, Rat(1, 10)), One)

CalculatePositionSize(e) ==
  LET basePositionSize == FMul(e.currentBalance, FDiv(e.positionSizePercent, Hundred))
      balanceMultiple == FDiv(e.currentBalance, InitialBalance)
      adjustmentFactor ==
        IF FGt(balanceMultiple, RInt(10)) THEN Rat(1, 2)
        ELSE IF FGt(balanceMultiple, RInt(5)) THEN Rat(7, 10)
        ELSE IF FGt(balanceMultiple, RInt(2)) THEN Rat(9, 10)
        ELSE One
      kellyFactor == CalculateKellyCriterion(e.trades)
  IN  FMul(FMul(basePositionSize, adjustmentFactor), kellyFactor)

CalculateEquity(e, currentPrice) ==
  IF e.position = NoPosition THEN e.currentBalance
  ELSE IF e.position.type = "BUY"
       THEN FAdd(e.currentBalance, FMul(e.position.units, currentPrice))
       ELSE LET profitLoss == FMul(FSub(e.position.entryPrice, currentPrice), e.position.units)
            IN  FAdd(e.currentBalance,
                     FAdd(FMul(e.position.units, e.position.entryPrice), profitLoss))

\* the running peak of the equity curve, starting from the initial balance
RECURSIVE Peak(_)
Peak(eq) ==
  IF eq = <<>> THEN InitialBalance
  ELSE LET p == Peak(SubSeq(eq, 1, Len(eq) - 1))
       IN  IF FGt(eq[Len(eq)].equity, p) THEN eq[Len(eq)].equity ELSE p

\* the largest (peak - equity) / peak over the equity curve
RECURSIVE CurveDrawdown(_)
CurveDrawdown(eq) ==
  IF eq = <<>> THEN Zero
  ELSE LET before == CurveDrawdown(SubSeq(eq, 1, Len(eq) - 1))
           peak == Peak(eq)
           drawdown == FDiv(FSub(peak, eq[Len(eq)].equity), peak)
       IN  IF FGt(drawdown, before) THEN drawdown ELSE before

UpdateMaxDrawdown(e) ==
  IF Len(e.equity) < 2 THEN e
  ELSE [e EXCEPT !.maxDrawdown = CurveDrawdown(e.equity)]

UpdateMaxDrawdownWithCurrentPrice(e, currentPrice) ==
  LET currentEquity == CalculateEquity(e, currentPrice)
      peak0 == Peak(e.equity)
      peak == IF FGt(currentEquity, peak0) THEN currentEquity ELSE peak0
      drawdown == FDiv(FSub(peak, currentEquity), peak)
  IN  IF FGt(drawdown, e.maxDrawdown) THEN [e EXCEPT !.maxDrawdown = drawdown] ELSE e


\* mutant of CanOpen: processSignal opens on every signal
CanOpenAlways(e) == TRUE

\* processSignal opens only when this.position is null
CanOpen(e) == e.position = NoPosition

\* mutant of IsOpposite: every signal closes the open position
IsOppositeAny(pos, signal) == TRUE

\* processSignal closes only on a signal of the opposite type
IsOpposite(pos, signal) ==
  \/ pos.type = "BUY" /\ signal.type = "SELL"
  \/ pos.type = "SELL" /\ signal.type = "BUY"

OpenPosition(e, signal, atrValue) ==
  LET entryPrice == AdjustPrice(signal.price, signal.type)
      useAtr == e.useAtrPositionSizing /\ atrValue # Zero
      atrStopDistance == FMul(atrValue, AtrMultiplier)
      atrStop == IF signal.type = "BUY" THEN FSub(entryPrice, atrStopDistance)
                 ELSE FAdd(entryPrice, atrStopDistance)
      riskAmount == FMul(e.currentBalance, FDiv(MaxRiskPerTradePercent, Hundred))
      riskPerUnit == FAbs(FSub(entryPrice, atrStop))
      pctStop == IF signal.type = "BUY"
                 THEN FMul(entryPrice, FSub(One, FDiv(e.stopLossPercent, Hundred)))
                 ELSE FMul(entryPrice, FAdd(One, FDiv(e.stopLossPercent, Hundred)))
      positionSize == IF useAtr THEN FDiv(riskAmount, riskPerUnit)
                      ELSE CalculatePositionSize(e)
      stopLossPrice == IF useAtr THEN atrStop ELSE pctStop
      takeProfitPrice ==
        IF signal.type = "BUY"
        THEN FMul(entryPrice, FAdd(One, FDiv(e.takeProfitPercent, Hundred)))
        ELSE FMul(entryPrice, FSub(One, FDiv(e.takeProfitPercent, Hundred)))
      units == FDiv(positionSize, entryPrice)
      fee == FMul(positionSize, Fee)
  IN  [e EXCEPT
        !.position = [ type |-> signal.type, entryPrice |-> entryPrice, units |-> units,
                       fee |-> fee, entryCandleIndex |-> signal.candleIndex,
                       stopLossPrice |-> stopLossPrice,
                       takeProfitPrice |-> takeProfitPrice ],
        !.currentBalance = FSub(e.currentBalance, fee),
        !.opens = e.opens + 1,
        !.fills = Append(e.fills, [leg |-> "entry", side |-> signal.type,
                                   raw |-> signal.price, fill |-> entryPrice]) ]

\* what closing a long position adds to the balance
LongCloseCredit(positionValue, fee) == FSub(positionValue, fee)

\* what closing a short position adds to the balance
ShortCloseCredit(entryValue, exitValue, fee) == FSub(FSub(entryValue, exitValue), fee)

\* mutant of ClosePosition: the position is dropped and no trade is recorded
ClosePositionNoTrade(e, signal) == [e EXCEPT !.position = NoPosition]

ClosePosition(e, signal) ==
  IF e.position = NoPosition THEN e
  ELSE
    LET pos == e.position
        exitPrice == AdjustPrice(signal.price, signal.type)
        isLong == pos.type = "BUY"
        entryValue == FMul(pos.units, pos.entryPrice)
        exitValue == FMul(pos.units, exitPrice)
        fee == FMul(exitValue, Fee)
        profit == IF isLong
                  THEN FSub(FSub(FSub(exitValue, entryValue), fee), pos.fee)
                  ELSE FSub(FSub(FSub(entryValue, exitValue), fee), pos.fee)
        positionValue == IF isLong THEN exitValue ELSE entryValue
        balance == IF isLong
                   THEN FAdd(e.currentBalance, LongCloseCredit(exitValue, fee))
                   ELSE FAdd(e.currentBalance, ShortCloseCredit(entryValue, exitValue, fee))
        trade == [ type |-> pos.type, entryPrice |-> pos.entryPrice, exitPrice |-> exitPrice,
                   units |-> pos.units, entryCandleIndex |-> pos.entryCandleIndex,
                   exitCandleIndex |-> signal.candleIndex, profit |-> profit,
                   fee |-> FAdd(pos.fee, FMul(positionValue, Fee)),
                   exitReason |-> IF signal.reason = "" THEN "SIGNAL" ELSE signal.reason ]
        e1 == [e EXCEPT !.currentBalance = balance,
                        !.trades = Append(e.trades, trade),
                        !.fills = Append(e.fills, [leg |-> "exit", side |-> signal.type,
                                                   raw |-> signal.price, fill |-> exitPrice])]
        e2 == UpdateMaxDrawdown(e1)
    IN  [e2 EXCEPT !.position = NoPosition]

\* a signal; reason is "" when the signal has none
Sig(type, price, candleIndex, reason) ==
  [type |-> type, price |-> price, candleIndex |-> candleIndex, reason |-> reason]

ProcessSignal(e, signal, atrValue) ==
  LET e1 == UpdateMaxDrawdownWithCurrentPrice(e, signal.price)
  IN  IF CanOpen(e1)
      THEN (IF signal.type = "BUY" \/ signal.type = "SELL"
            THEN OpenPosition(e1, signal, atrValue) ELSE e1)
      ELSE (IF IsOpposite(e1.position, signal) THEN ClosePosition(e1, signal) ELSE e1)

\* mutant of TriggeredExit: the take-profit level is looked at first
TriggeredExitTargetFirst(pos, candle) ==
  IF pos.type = "BUY" /\ FGe(candle.high, pos.takeProfitPrice) THEN "TAKE_PROFIT"
  ELSE IF pos.type = "SELL" /\ FLe(candle.low, pos.takeProfitPrice) THEN "TAKE_PROFIT"
  ELSE IF pos.type = "BUY" /\ FLe(candle.low, pos.stopLossPrice) THEN "STOP_LOSS"
  ELSE IF pos.type = "SELL" /\ FGe(candle.high, pos.stopLossPrice) THEN "STOP_LOSS"
  ELSE "NONE"

\* which exit the candle triggers for the open position: stop-loss is tested first
TriggeredExit(pos, candle) ==
  IF pos.type = "BUY" /\ FLe(candle.low, pos.stopLossPrice) THEN "STOP_LOSS"
  ELSE IF pos.type = "SELL" /\ FGe(candle.high, pos.stopLossPrice) THEN "STOP_LOSS"
  ELSE IF pos.type = "BUY" /\ FGe(candle.high, pos.takeProfitPrice) THEN "TAKE_PROFIT"
  ELSE IF pos.type = "SELL" /\ FLe(candle.low, pos.takeProfitPrice) THEN "TAKE_PROFIT"
  ELSE "NONE"

CheckStopLossAndTakeProfit(e, candle, candleIndex) ==
  IF e.position = NoPosition THEN e
  ELSE
    LET pos == e.position
        hit == TriggeredExit(pos, candle)
        side == IF pos.type = "BUY" THEN "SELL" ELSE "BUY"
        price == IF hit = "STOP_LOSS" THEN pos.stopLossPrice ELSE pos.takeProfitPrice
    IN  IF hit = "NONE" THEN e
        ELSE ClosePosition(e, Sig(side, price, candleIndex, hit))

\* True Range of candle i (0-based)
TrueRange(cs, i) ==
  LET c == cs[i + 1]
      highLow == FSub(c.high, c.low)
  IN  IF i = 0 THEN highLow
      ELSE LET prevClose == cs[i].close
               highPrevClose == FAbs(FSub(c.high, prevClose))
               lowPrevClose == FAbs(FSub(c.low, prevClose))
           IN  FMax(FMax(highLow, highPrevClose), lowPrevClose)

RECURSIVE SumTrueRange(_, _)
SumTrueRange(cs, n) == IF n = 0 THEN Zero ELSE FAdd(SumTrueRange(cs, n - 1), TrueRange(cs, n - 1))

\* atrValues[i] of calculateAtr(candles, period)
RECURSIVE AtrAt(_, _, _)
AtrAt(cs, period, i) ==
  IF i < period - 1 THEN TrueRange(cs, i)
  ELSE IF i = period - 1 THEN FDiv(SumTrueRange(cs, period), RInt(period))
  ELSE FDiv(FAdd(FMul(AtrAt(cs, period, i - 1), RInt(period - 1)), TrueRange(cs, i)),
            RInt(period))

\* atrValues[i] as run passes it on: undefined (falsy, like 0) without ATR sizing
AtrValue(e, cs, i) == IF e.useAtrPositionSizing THEN AtrAt(cs, AtrPeriod, i) ELSE Zero

RECURSIVE SumHolding(_)
SumHolding(ts) ==
  IF ts = <<>> THEN 0
  ELSE SumHolding(SubSeq(ts, 1, Len(ts) - 1))
       + (ts[Len(ts)].exitCandleIndex - ts[Len(ts)].entryCandleIndex)

IsStopLossExit(t) == t.exitReason = "STOP_LOSS"
IsTakeProfitExit(t) == t.exitReason = "TAKE_PROFIT"

\* mutant of ProfitFactor: the total of the losses is used with its sign
ProfitFactorNoAbs(ts) ==
  LET winningTrades == SelectSeq(ts, IsWinning)
      losingTrades == SelectSeq(ts, IsLosing)
      totalWinnings == SumProfit(winningTrades)
      totalLosses == SumProfit(losingTrades)
  IN  IF Len(winningTrades) > 0
      THEN (IF Len(losingTrades) > 0
            THEN (IF FGt(totalLosses, Zero) THEN FDiv(totalWinnings, totalLosses)
                  ELSE MaxSafeInteger)
            ELSE MaxSafeInteger)
      ELSE Zero

\* mutant of ProfitFactor: the ratio is taken without looking at the counts
ProfitFactorUnguarded(ts) ==
  FDiv(SumProfit(SelectSeq(ts, IsWinning)), FAbs(SumProfit(SelectSeq(ts, IsLosing))))

\* the profitFactor of generateSummary
ProfitFactor(ts) ==
  LET winningTrades == SelectSeq(ts, IsWinning)
      losingTrades == SelectSeq(ts, IsLosing)
      totalWinnings == SumProfit(winningTrades)
      totalLosses == FAbs(SumProfit(losingTrades))
  IN  IF Len(winningTrades) > 0
      THEN (IF Len(losingTrades) > 0
            THEN (IF FGt(totalLosses, Zero) THEN FDiv(totalWinnings, totalLosses)
                  ELSE MaxSafeInteger)
            ELSE MaxSafeInteger)
      ELSE Zero

\* generateSummary (sharpRatio, a square root over the equity curve, is left out)
GenerateSummary(e) ==
  LET finalBalance == e.currentBalance
      profit == FSub(finalBalance, InitialBalance)
      profitPercent == FMul(FDiv(profit, InitialBalance), Hundred)
      winningTrades == SelectSeq(e.trades, IsWinning)
      losingTrades == SelectSeq(e.trades, IsLosing)
      totalTrades == Len(e.trades)
      Pct(n) == IF totalTrades > 0 THEN FMul(FDiv(RInt(n), RInt(totalTrades)), Hundred)
                ELSE Zero
      maxDrawdownPercent == FMul(e.maxDrawdown, Hundred)
  IN  [ initialBalance |-> InitialBalance,
        finalBalance |-> finalBalance,
        profit |-> profit,
        profitPercent |-> profitPercent,
        totalTrades |-> totalTrades,
        winningTrades |-> Len(winningTrades),
        losingTrades |-> Len(losingTrades),
        winRate |-> Pct(Len(winningTrades)),
        avgWin |-> IF Len(winningTrades) > 0
                   THEN FDiv(SumProfit(winningTrades), RInt(Len(winningTrades))) ELSE Zero,
        avgLoss |-> IF Len(losingTrades) > 0
                    THEN FDiv(SumProfit(losingTrades), RInt(Len(losingTrades))) ELSE Zero,
        profitFactor |-> ProfitFactor(e.trades),
        maxDrawdownPercent |-> maxDrawdownPercent,
        avgHoldingPeriod |-> IF totalTrades = 0 THEN Zero
                             ELSE FDiv(RInt(SumHolding(e.trades)), RInt(totalTrades)),
        raroc |-> FDiv(profitPercent,
                       IF FGt(maxDrawdownPercent, Zero) THEN maxDrawdownPercent ELSE One),
        stopLossRate |-> Pct(Len(SelectSeq(e.trades, IsStopLossExit))),
        takeProfitRate |-> Pct(Len(SelectSeq(e.trades, IsTakeProfitExit))) ]

NoSummary == [totalTrades |-> -1]
NoResult == [success |-> FALSE, error |-> "pending", summary |-> NoSummary]

Failure(err) == [success |-> FALSE, error |-> err, summary |-> NoSummary]

\* mutant of Catch: the exception leaves run
CatchRethrows(err) == [pc |-> "thrown", result |-> NoResult]

\* the catch block of run: the exception becomes a failure result and run returns
Catch(err) == [pc |-> "done", result |-> Failure(err)]

Success(e) == [success |-> TRUE, error |-> "", summary |-> GenerateSummary(e)]

\* mutant of NoData: an empty candle array is let through
NoDataNever(cs) == FALSE

\* run rejects a missing or empty candle array
NoData(cs) == Len(cs) = 0

\* run rejects a strategy that is null or has no generateBacktestSignals function
InvalidStrategy(kind) == kind \in {"null", "noFunction"}

(***************************************************************************)
(* ImprovedBacktestEngine.adjustParametersBasedOnVolatility.               *)
(* volatility = sqrt(variance) / mean is compared through its square:      *)
(* with mean > 0, volatility > c  iff  variance / mean^2 > c^2.            *)
(***************************************************************************)
RECURSIVE SumClose(_)
SumClose(cs) == IF cs = <<>> THEN Zero ELSE FAdd(SumClose(Tail(cs)), Head(cs).close)

RECURSIVE SumSqDev(_, _)
SumSqDev(cs, mean) ==
  IF cs = <<>> THEN Zero
  ELSE LET d == FSub(Head(cs).close, mean) IN FAdd(SumSqDev(Tail(cs), mean), FMul(d, d))

VolatilitySquared(cs) ==
  LET recentCandles == LastN(cs, VolatilityLookback)
      n == RInt(Len(recentCandles))
      mean == FDiv(SumClose(recentCandles), n)
      variance == FDiv(SumSqDev(recentCandles, mean), n)
  IN  FDiv(variance, FMul(mean, mean))

VolatilityRegime(cs) ==
  IF Len(cs) < VolatilityLookback THEN "skip"
  ELSE IF FGt(VolatilitySquared(cs), Rat(1, 400)) THEN "high"
  ELSE IF FLt(VolatilitySquared(cs), Rat(1, 2500)) THEN "low"
  ELSE "normal"

AdjustParametersBasedOnVolatility(e, cs) ==
  LET regime == VolatilityRegime(cs)
  IN  IF regime = "high"
      THEN [e EXCEPT !.stopLossPercent = FMul(e.stopLossPercent, Rat(3, 2)),
                     !.takeProfitPercent = FMul(e.takeProfitPercent, Rat(6, 5)),
                     !.positionSizePercent = FMul(e.positionSizePercent, Rat(7, 10))]
      ELSE IF regime = "low"
      THEN [e EXCEPT !.stopLossPercent = FMul(e.stopLossPercent, Rat(4, 5)),
                     !.takeProfitPercent = FMul(e.takeProfitPercent, Rat(9, 10)),
                     !.positionSizePercent = FMul(e.positionSizePercent, Rat(6, 5))]
      ELSE e


(***************************************************************************)
(* The inputs of run.                                                      *)
(***************************************************************************)
SeqsUpTo(S, n) == UNION {[1..m -> S] : m \in 0..n}

CandleSeqs == SeqsUpTo(CandleSet, NumCandles)

\* the signal streams a strategy can return for n candles
SignalSet(n) == {Sig(t, p, c, "") : t \in SignalTypes, p \in SignalPrices, c \in 0..(n - 1)}
\* streams are in candle order; several signals may share a candle
Streams(n) ==
  {st \in SeqsUpTo(SignalSet(n), MaxSignals) :
     \A j \in 1..(Len(st) - 1) : st[j].candleIndex <= st[j + 1].candleIndex}

\* bestResult = null
NoBest == <<>>

(***************************************************************************)
(* RiskManager (src/src/utils/riskManager.js).  Dates are days counted from *)
(* 1 January of one year; the limits are percentages of stats.initialBalance*)
(* and are the ones MAX_DAILY_LOSS, MAX_WEEKLY_LOSS and MAX_MONTHLY_LOSS or *)
(* updateSettings configure.                                                *)
(***************************************************************************)
MaxDailyLoss == 5
MaxWeeklyLoss == 6
MaxMonthlyLoss == 7
ConstructedOn == 26
FirstDayOfYear == 0
DaysInJanuary == 31

\* getWeekNumber: Math.ceil of (pastDaysOfYear + getDay() + 1) / 7, where
\* pastDaysOfYear is the day plus the fraction of the day that has passed (not 0)
GetWeekNumber(day) == ((day + FirstDayOfYear + 1) \div 7) + 1

\* Date.getMonth
GetMonth(day) == IF day < DaysInJanuary THEN 0 ELSE 1

\* resetStats
ResetStats(day) ==
  [ dailyProfit |-> Zero, weeklyProfit |-> Zero, monthlyProfit |-> Zero,
    lastDailyReset |-> day, lastWeeklyReset |-> day, lastMonthlyReset |-> day,
    initialBalance |-> Zero, currentBalance |-> Zero ]

\* checkTimeBasedReset
CheckTimeBasedReset(st, day) ==
  LET d == IF day # st.lastDailyReset
           THEN [st EXCEPT !.dailyProfit = Zero, !.lastDailyReset = day] ELSE st
      w == IF GetWeekNumber(day) # GetWeekNumber(d.lastWeeklyReset)
           THEN [d EXCEPT !.weeklyProfit = Zero, !.lastWeeklyReset = day] ELSE d
  IN  IF GetMonth(day) # GetMonth(w.lastMonthlyReset)
      THEN [w EXCEPT !.monthlyProfit = Zero, !.lastMonthlyReset = day] ELSE w

\* one window of checkRiskViolation
WindowViolated(profit, initialBalance, maxLoss) ==
  /\ FLt(profit, Zero)
  /\ FGt(FMul(FDiv(FAbs(profit), initialBalance), Hundred), RInt(maxLoss))

\* checkRiskViolation
CheckRiskViolation(st) ==
  IF st.initialBalance = Zero THEN FALSE
  ELSE \/ WindowViolated(st.dailyProfit, st.initialBalance, MaxDailyLoss)
       \/ WindowViolated(st.weeklyProfit, st.initialBalance, MaxWeeklyLoss)
       \/ WindowViolated(st.monthlyProfit, st.initialBalance, MaxMonthlyLoss)

\* no optimization is under way
OptIdle ==
  /\ optPc = "idle"
  /\ population = <<>>
  /\ evalIdx = 0
  /\ results = <<>>
  /\ gen = 0
  /\ nextGeneration = <<>>
  /\ best = NoBest
  /\ genBest = <<>>
  /\ optResult = NoResult
  /\ evaluated = {}

\* no Monte Carlo simulation is under way
McIdle ==
  /\ mcPc = "idle"
  /\ finalEquities = <<>>
  /\ mcOut = NoResult

\* auth.js once loaded: no session, the cleanup interval started
AuthLoaded ==
  /\ sessions = <<>>
  /\ inheritedExpires = <<>>
  /\ clock = 0
  /\ lastCleanup = 0
  /\ issued = {}
  /\ ended = {}
  /\ lastAuth = <<>>

\* no call of executeApiCall yet
NoApiCall ==
  /\ callPc = "idle"
  /\ retries = 0
  /\ callRetries = 0
  /\ attempts = 0
  /\ delays = <<>>
  /\ errors = <<>>
  /\ thrown = <<>>

MaxCallers == 3

\* part_000 once loaded: client = createClient(config.binance), no call of
\* reinitialize yet
ClientLoaded ==
  /\ isInitializing = FALSE
  /\ initializationQueue = <<>>
  /\ client = "config"
  /\ callers = [c \in 1..MaxCallers |->
                  [state |-> "none", options |-> "", before |-> "", got |-> "",
                   item |-> <<>>]]

\* no call of getCandles yet
NoCandlesCall ==
  /\ candlesPc = "idle"
  /\ market = {}
  /\ endTime = 0
  /\ currentStartTime = 0
  /\ errorCount = 0
  /\ allCandles = <<>>
  /\ served = <<>>

\* the state after construction, for the given engine variants and strategies
Constructed ==
  /\ AuthLoaded
  /\ NoApiCall
  /\ ClientLoaded
  /\ NoCandlesCall
  /\ stopLossPercent = StopLossPercent
  /\ takeProfitPercent = TakeProfitPercent
  /\ positionSizePercent = PositionSizePercent
  /\ currentBalance = InitialBalance
  /\ trades = <<>>
  /\ equity = <<>>
  /\ maxDrawdown = Zero
  /\ position = NoPosition
  /\ pc = "start"
  /\ ci = 0
  /\ sk = 0
  /\ result = NoResult
  /\ runNo = 1
  /\ firstResult = NoResult
  /\ opens = 0
  /\ fills = <<>>
  /\ kellyOut = NaN
  /\ OptIdle
  /\ McIdle
  /\ stPc = "new"
  /\ strategy = <<>>
  /\ now = ConstructedOn
  /\ stats = ResetStats(ConstructedOn)
  /\ recorded = <<>>
  /\ allowed = "none"
  /\ cancelAt = <<>>

EngineInit(profiles, kinds) ==
  /\ candles \in CandleSeqs
  /\ strategyKind \in kinds
  /\ signals \in (IF strategyKind = "valid" THEN Streams(Len(candles)) ELSE {<<>>})
  /\ profile \in profiles
  /\ fitTable = <<>>
  /\ ctorParams = <<>>
  /\ Constructed

\* the engine fields take the values of record e; nothing else of the engine's
\* surroundings changes
Assign(e) ==
  /\ currentBalance' = e.currentBalance
  /\ trades' = e.trades
  /\ equity' = e.equity
  /\ maxDrawdown' = e.maxDrawdown
  /\ position' = e.position
  /\ stopLossPercent' = e.stopLossPercent
  /\ takeProfitPercent' = e.takeProfitPercent
  /\ positionSizePercent' = e.positionSizePercent
  /\ opens' = e.opens
  /\ fills' = e.fills
  /\ UNCHANGED <<kellyOut, optVars, moreVars>>

inputVars == <<candles, signals, strategyKind, profile, runNo, firstResult>>

\* the first lines of run's try block: the fields are reset
Reset(e) ==
  [e EXCEPT !.currentBalance = InitialBalance, !.trades = <<>>, !.equity = <<>>,
            !.maxDrawdown = Zero, !.position = NoPosition, !.opens = 0, !.fills = <<>>]

\* mutant of NextSignal: the signals are taken in stream order whatever their candle
NextSignalAnyCandle(i, k) == IF k < Len(signals) THEN k + 1 ELSE 0

\* the index (1-based) of the next entry of signals after position k whose
\* candleIndex is i, or 0: what filter((s) => s.candleIndex === i) yields next
NextSignal(i, k) ==
  LET later == {j \in (k + 1)..Len(signals) : signals[j].candleIndex = i}
  IN  IF later = {} THEN 0 ELSE CHOOSE j \in later : \A j2 \in later : j <= j2

(***************************************************************************)
(* ImprovedBacktestEngine.run up to its call of super.run.                 *)
(***************************************************************************)
ImprovedRun ==
  /\ pc = "start"
  /\ profile.improved
  /\ IF NoData(candles)
     THEN /\ pc' = "done"
          /\ result' = Failure("noData")
          /\ Assign(Engine)
     ELSE IF profile.useDynamicParameters
     THEN LET e == AdjustParametersBasedOnVolatility(Engine, candles)
              \* strategy.constructor.name on null, reached only after the settings changed
              throws == strategyKind = "null" /\ VolatilityRegime(candles) \in {"high", "low"}
              c == Catch("TypeError")
          IN  /\ Assign(e)
              /\ pc' = IF throws THEN c.pc ELSE "super"
              /\ result' = IF throws THEN c.result ELSE result
     ELSE /\ pc' = "super"
          /\ result' = result
          /\ Assign(Engine)
  /\ UNCHANGED <<inputVars, ci, sk>>

(***************************************************************************)
(* BacktestEngine.run up to the candle loop.                               *)
(***************************************************************************)
Run ==
  /\ \/ pc = "start" /\ ~profile.improved
     \/ pc = "super"
  /\ ci' = 0
  /\ IF NoData(candles)
     THEN /\ pc' = "done"
          /\ result' = Failure("noData")
          /\ Assign(Engine)
     ELSE IF InvalidStrategy(strategyKind)
     THEN /\ pc' = "done"
          /\ result' = Failure("invalidStrategy")
          /\ Assign(Engine)
     ELSE LET e == Reset(Engine)
              c == IF strategyKind = "throws" THEN Catch("strategyError")
                   ELSE Catch("TypeError")
          IN  /\ IF strategyKind \in {"throws", "returnsUndefined"}
                 THEN pc' = c.pc /\ result' = c.result
                 ELSE IF strategyKind = "valid" /\ Len(signals) = 0
                 THEN pc' = "done" /\ result' = Success(e)
                 ELSE pc' = "check" /\ result' = result
              /\ Assign(e)
  /\ UNCHANGED <<inputVars, sk>>

\* loop body, first part: the stop-loss / take-profit check of candle ci
CheckStop ==
  /\ pc = "check"
  /\ Assign(IF position # NoPosition
            THEN CheckStopLossAndTakeProfit(Engine, candles[ci + 1], ci)
            ELSE Engine)
  /\ pc' = "signals"
  /\ sk' = 0
  /\ UNCHANGED <<inputVars, ci, result>>

\* loop body, second part: the next signal of candle ci is processed
Signal ==
  /\ pc = "signals"
  /\ strategyKind = "valid"
  /\ NextSignal(ci, sk) # 0
  /\ LET j == NextSignal(ci, sk)
     IN  /\ Assign(ProcessSignal(Engine, signals[j], AtrValue(Engine, candles, ci)))
         /\ sk' = j
  /\ UNCHANGED <<inputVars, ci, pc, result>>

\* a null entry in the signal array: the filter callback throws, run catches
FilterThrows ==
  /\ pc = "signals"
  /\ strategyKind = "nullSignal"
  /\ LET c == Catch("TypeError") IN pc' = c.pc /\ result' = c.result
  /\ Assign(Engine)
  /\ UNCHANGED <<inputVars, ci, sk>>

\* loop body, last part: the equity point of candle ci
RecordEquity ==
  /\ pc = "signals"
  /\ strategyKind = "valid"
  /\ NextSignal(ci, sk) = 0
  /\ Assign([Engine EXCEPT !.equity =
               Append(equity, [ time |-> ci, balance |-> currentBalance,
                                equity |-> CalculateEquity(Engine, candles[ci + 1].close) ])])
  /\ ci' = ci + 1
  /\ pc' = IF ci + 1 < Len(candles) THEN "check" ELSE "final"
  /\ sk' = 0
  /\ UNCHANGED <<inputVars, result>>

\* after the loop: an open position is closed at the last close, the summary is made
Finish ==
  /\ pc = "final"
  /\ LET last == Len(candles)
         e == IF position # NoPosition
              THEN ClosePosition(Engine,
                     Sig(IF position.type = "BUY" THEN "SELL" ELSE "BUY",
                         candles[last].close, last - 1, ""))
              ELSE Engine
     IN  /\ result' = Success(e)
         /\ Assign(e)
  /\ pc' = "done"
  /\ UNCHANGED <<inputVars, ci, sk>>

\* run is called again on the same instance with the same candles and strategy
Rerun ==
  /\ pc = "done"
  /\ runNo < MaxRuns
  /\ runNo' = runNo + 1
  /\ firstResult' = IF runNo = 1 THEN result ELSE firstResult
  /\ pc' = "start"
  /\ result' = NoResult
  /\ Assign(Engine)
  /\ UNCHANGED <<candles, signals, strategyKind, profile, ci, sk>>

vars == <<engineVars, kellyOut, optVars, moreVars>>

BaseProfile ==
  [improved |-> FALSE, useDynamicParameters |-> FALSE, useAtrPositionSizing |-> FALSE]

(***************************************************************************)
(* Spec: one call of BacktestEngine.run, for every strategy kind.          *)
(***************************************************************************)
Init == EngineInit({BaseProfile}, StrategyKinds)

Next ==
  \/ Run
  \/ CheckStop
  \/ Signal
  \/ FilterThrows
  \/ RecordEquity
  \/ Finish

Spec == Init /\ [][Next]_vars

(***************************************************************************)
(* SpecTwice: run is called MaxRuns times on one instance, base or         *)
(* improved engine, with the same candles and the same strategy.           *)
(***************************************************************************)
InitTwice == EngineInit(Profiles, {"valid", "null"})

NextTwice ==
  \/ ImprovedRun
  \/ Run
  \/ CheckStop
  \/ Signal
  \/ RecordEquity
  \/ Finish
  \/ Rerun

SpecTwice == InitTwice /\ [][NextTwice]_vars


(***************************************************************************)
(* SpecKelly and SpecSummary: calculateKellyCriterion and generateSummary   *)
(* applied to trade histories.  Both read this.trades only through the      *)
(* profit, the exit reason and the candle indexes of each trade.            *)
(***************************************************************************)
KellyProfits == {RInt(-1), Zero, RInt(2)}
SummaryProfits == {RInt(-2), RInt(-1), Zero, RInt(1), RInt(3)}

\* a closed trade with the given profit, as closePosition records it
HistoryTrade(profit) ==
  [ type |-> "BUY", entryPrice |-> RInt(12), exitPrice |-> RInt(12), units |-> One,
    entryCandleIndex |-> 0, exitCandleIndex |-> 1, profit |-> profit,
    fee |-> Zero, exitReason |-> "SIGNAL" ]

\* this.trades.push(trade)
RecordTrade(max, profits) ==
  /\ pc = "start"
  /\ mcPc = "idle"
  /\ Len(trades) < max
  /\ \E p \in profits : trades' = Append(trades, HistoryTrade(p))
  /\ UNCHANGED <<candles, signals, strategyKind, profile, stopLossPercent,
                 takeProfitPercent, positionSizePercent, currentBalance, equity,
                 maxDrawdown, position, pc, ci, sk, result, runNo, firstResult,
                 opens, fills, kellyOut, optVars, moreVars>>

RecordKellyTrade == RecordTrade(MaxTrades, KellyProfits)

RecordSummaryTrade == RecordTrade(MaxSummaryTrades, SummaryProfits)

Kelly ==
  /\ pc = "start"
  /\ kellyOut' = CalculateKellyCriterion(trades)
  /\ pc' = "sized"
  /\ UNCHANGED <<candles, signals, strategyKind, profile, stopLossPercent,
                 takeProfitPercent, positionSizePercent, currentBalance, trades, equity,
                 maxDrawdown, position, ci, sk, result, runNo, firstResult,
                 opens, fills, optVars, moreVars>>

Summarize ==
  /\ pc = "start"
  /\ result' = Success(Engine)
  /\ pc' = "summarized"
  /\ UNCHANGED <<candles, signals, strategyKind, profile, stopLossPercent,
                 takeProfitPercent, positionSizePercent, currentBalance, trades, equity,
                 maxDrawdown, position, ci, sk, runNo, firstResult,
                 opens, fills, kellyOut, optVars, moreVars>>

InitHistory ==
  /\ candles = <<>>
  /\ strategyKind = "valid"
  /\ signals = <<>>
  /\ profile = BaseProfile
  /\ fitTable = <<>>
  /\ ctorParams = <<>>
  /\ Constructed

NextKelly ==
  \/ RecordKellyTrade
  \/ Kelly

SpecKelly == InitHistory /\ [][NextKelly]_vars

NextSummary ==
  \/ RecordSummaryTrade
  \/ Summarize

SpecSummary == InitHistory /\ [][NextSummary]_vars

(***************************************************************************)
(* StrategyOptimizer.optimize.  The strategy is MovingAverageCrossover, the *)
(* parameters searched are shortPeriod and longPeriod.  The backtest of a   *)
(* parameter set is a function of the set (BacktestEngine.run resets the    *)
(* engine and the candles are the same), given by fitTable.                 *)
(***************************************************************************)
ParamNames == {"shortPeriod", "longPeriod"}

ParamRanges ==
  [ shortPeriod |-> [min |-> 1, max |-> 2], longPeriod |-> [min |-> 2, max |-> 3] ]

\* the values generateInitialPopulation and mutate draw for an integer parameter
RandomValues(name) == ParamRanges[name].min .. ParamRanges[name].max

ParameterSets ==
  [shortPeriod : RandomValues("shortPeriod"), longPeriod : RandomValues("longPeriod")]

TrendMaPeriod == 50

\* new MovingAverageCrossover(params) throws: validateParams
CreateStrategyThrows(params) ==
  \/ params.shortPeriod <= 0
  \/ params.longPeriod <= 0
  \/ params.shortPeriod >= params.longPeriod
  \/ TrendMaPeriod <= params.longPeriod

FitnessValues == {0, 1, 2}

\* what backtestEngine.run and calculateFitness yield for one parameter set
Evaluations ==
  {[success |-> FALSE, fitness |-> 0]}
    \cup {[success |-> TRUE, fitness |-> f] : f \in FitnessValues}

RECURSIVE SortByFitness(_)
\* results.sort((a, b) => b.fitness - a.fitness): descending, equal entries keep their order
SortByFitness(rs) ==
  IF rs = <<>> THEN <<>>
  ELSE LET front == SortByFitness(SubSeq(rs, 1, Len(rs) - 1))
           r == rs[Len(rs)]
           k == Cardinality({i \in 1..Len(front) : front[i].fitness >= r.fitness})
       IN  SubSeq(front, 1, k) \o <<r>> \o SubSeq(front, k + 1, Len(front))

\* results.slice(0, Math.ceil(results.length / 2))
TopHalf(rs) == SubSeq(rs, 1, (Len(rs) + 1) \div 2)

\* selectedResults.map((r) => r.params)
Parents(selected) == [i \in 1..Len(selected) |-> selected[i].params]

\* mutant of Elites: no parameter set is carried over
NoElites(parents) == <<>>

\* mutant of Elites: every parent is carried over twice
ElitesDoubled(parents) == parents \o parents

\* mutant of Elites: only the best parent is carried over
ElitesBestOnly(parents) == <<parents[1]>>

\* generateNextGeneration: the best two parents go to the next generation as they are
Elites(parents) ==
  IF Len(parents) > 1 THEN <<parents[1], parents[2]>> ELSE <<parents[1]>>

\* crossover: each parameter comes from parent1 or from parent2
Crossover(parent1, parent2, fromFirst) ==
  [n \in ParamNames |-> IF fromFirst[n] THEN parent1[n] ELSE parent2[n]]

\* mutate: each parameter is redrawn or kept
Mutate(params, redrawn, drawn) ==
  [n \in ParamNames |-> IF redrawn[n] THEN drawn[n] ELSE params[n]]

\* the greatest fitness among results
MaxFitness(rs) ==
  CHOOSE f \in {rs[i].fitness : i \in 1..Len(rs)} :
    \A i \in 1..Len(rs) : rs[i].fitness <= f

engineFields ==
  <<stopLossPercent, takeProfitPercent, positionSizePercent, currentBalance, trades,
    equity, maxDrawdown, position, pc, ci, sk, result, opens, fills, kellyOut>>

OptFailure(err) == [success |-> FALSE, error |-> err, summary |-> NoSummary]

OptSuccess(b, rs) ==
  [ success |-> TRUE, error |-> "",
    summary |-> [bestParams |-> b[1].params, bestFitness |-> b[1].fitness, allResults |-> rs] ]

\* optimize up to the generation loop
Optimize ==
  /\ optPc = "idle"
  /\ IF Len(candles) = 0
     THEN /\ optPc' = "done"
          /\ optResult' = OptFailure("noData")
          /\ UNCHANGED <<population, evalIdx>>
     ELSE /\ population' \in [1..PopulationSize -> ParameterSets]
          /\ evalIdx' = 1
          /\ optPc' = "evaluate"
          /\ UNCHANGED optResult
  /\ UNCHANGED <<inputVars, engineFields, moreVars, fitTable, results, gen, nextGeneration, best,
                 genBest>>

\* one pass of the inner loop: createStrategy, run, and the bookkeeping of the result
Evaluate ==
  /\ optPc = "evaluate"
  /\ evalIdx <= Len(population)
  /\ LET params == population[evalIdx]
     IN  IF CreateStrategyThrows(params)
         THEN /\ optPc' = "done"
              /\ optResult' = OptFailure("invalidParams")
              /\ UNCHANGED <<evalIdx, results, best, evaluated>>
         ELSE LET run == fitTable[params]
                  r == [params |-> params, fitness |-> run.fitness]
              IN  /\ evalIdx' = evalIdx + 1
                  /\ results' = IF run.success THEN Append(results, r) ELSE results
                  /\ evaluated' = IF run.success THEN evaluated \cup {r} ELSE evaluated
                  /\ best' = IF run.success /\ (best = NoBest \/ run.fitness > best[1].fitness)
                             THEN <<r>> ELSE best
                  /\ UNCHANGED <<optPc, optResult>>
  /\ UNCHANGED <<inputVars, engineFields, mcVars, stratVars, riskVars, cancelAt, fitTable,
                 serviceVars,
                 population, gen, nextGeneration, genBest>>

\* after the inner loop: sort, topHalf, the elite of the next generation, or the end
Select ==
  /\ optPc = "evaluate"
  /\ evalIdx > Len(population)
  /\ LET sorted == SortByFitness(results)
         topHalf == TopHalf(sorted)
     IN  /\ genBest' = IF results = <<>> THEN genBest
                       ELSE Append(genBest, MaxFitness(results))
         /\ IF topHalf = <<>>
            \* topHalf[0].fitness in the log line
            THEN /\ optPc' = "done"
                 /\ optResult' = OptFailure("TypeError")
                 /\ results' = <<>>
                 /\ UNCHANGED nextGeneration
            ELSE IF gen < Generations - 1
            THEN /\ optPc' = "breed"
                 /\ nextGeneration' = Elites(Parents(topHalf))
                 /\ results' = sorted
                 /\ UNCHANGED optResult
            ELSE /\ optPc' = "done"
                 /\ optResult' = OptSuccess(best, sorted)
                 /\ results' = sorted
                 /\ UNCHANGED nextGeneration
  /\ UNCHANGED <<inputVars, engineFields, moreVars, fitTable, population, evalIdx, gen, best>>

\* one pass of the while loop of generateNextGeneration
Breed ==
  /\ optPc = "breed"
  /\ Len(nextGeneration) < PopulationSize
  /\ LET parents == Parents(TopHalf(results))
     IN  \E i1, i2 \in 1..Len(parents) :
           \E fromFirst, redrawn \in [ParamNames -> BOOLEAN] :
             \E drawn \in ParameterSets :
               nextGeneration' =
                 Append(nextGeneration,
                        Mutate(Crossover(parents[i1], parents[i2], fromFirst), redrawn, drawn))
  /\ UNCHANGED <<inputVars, engineFields, moreVars, optPc, fitTable, population, evalIdx, results,
                 gen, best, genBest, optResult>>

\* generateNextGeneration returns: the next pass of the generation loop begins
NextGen ==
  /\ optPc = "breed"
  /\ Len(nextGeneration) >= PopulationSize
  /\ population' = nextGeneration
  /\ nextGeneration' = <<>>
  /\ results' = <<>>
  /\ gen' = gen + 1
  /\ evalIdx' = 1
  /\ optPc' = "evaluate"
  /\ UNCHANGED <<inputVars, engineFields, moreVars, fitTable, best, genBest, optResult>>

OptimizerCandles == {<<>>, <<Candle(12, 12, 12)>>}

InitOptimizer ==
  /\ candles \in OptimizerCandles
  /\ strategyKind = "valid"
  /\ signals = <<>>
  /\ profile = BaseProfile
  /\ fitTable \in [{p \in ParameterSets : ~CreateStrategyThrows(p)} -> Evaluations]
  /\ ctorParams = <<>>
  /\ Constructed

NextOptimizer ==
  \/ Optimize
  \/ Evaluate
  \/ Select
  \/ Breed
  \/ NextGen

SpecOptimizer == InitOptimizer /\ [][NextOptimizer]_vars


(***************************************************************************)
(* SpecMonteCarlo: ImprovedBacktestEngine.runMonteCarloSimulation on a      *)
(* trade history: trades as closePosition records them (run passes          *)
(* baseResult.trades) and trades that carry a profitPercentage.             *)
(***************************************************************************)
ConfidenceInterval == Rat(19, 20)

\* the value of a property that an object does not have
Undefined == <<0, -1>>

\* the conversion of an operand of an arithmetic operator to a number
ToNumber(x) == IF x = Undefined THEN NaN ELSE x

\* Math.floor of a number that is not negative
Floor(x) == x[1] \div x[2]

\* a[i] (0-based)
At(a, i) == IF i < Len(a) THEN a[i + 1] ELSE Undefined

McProfits == {RInt(-1), RInt(2)}
McProfitPercentages == {RInt(50), RInt(100)}

\* a trade object with a profitPercentage
ReturnTrade(pct) ==
  [ type |-> "BUY", entryPrice |-> RInt(12), exitPrice |-> RInt(12), units |-> One,
    entryCandleIndex |-> 0, exitCandleIndex |-> 1, profit |-> pct,
    fee |-> Zero, exitReason |-> "SIGNAL", profitPercentage |-> pct ]

\* trade.profitPercentage
ProfitPercentage(trade) ==
  IF "profitPercentage" \in DOMAIN trade THEN trade.profitPercentage ELSE Undefined

\* trades.map((trade) => trade.profitPercentage / 100)
Returns(ts) == [i \in 1..Len(ts) |-> FDiv(ToNumber(ProfitPercentage(ts[i])), Hundred)]

\* [array[i], array[j]] = [array[j], array[i]] (0-based)
Swap(array, i, j) == [array EXCEPT ![i + 1] = array[j + 1], ![j + 1] = array[i + 1]]

RECURSIVE FisherYatesFrom(_, _)
\* shuffleArray: the passes from index i down to 1, j = Math.floor(Math.random() *
\* (i + 1)) being any of 0..i
FisherYatesFrom(array, i) ==
  IF i <= 0 THEN {array}
  ELSE UNION {FisherYatesFrom(Swap(array, i, j), i - 1) : j \in 0..i}

\* mutant of ShuffleArray: array[i] = array[j] in place of the swap
ShuffleArrayOverwrite(a) ==
  {[i \in 1..Len(a) |-> a[IF i = Len(a) THEN j ELSE i]] : j \in 1..Len(a)}

\* shuffleArray: what the Fisher-Yates passes can leave
ShuffleArray(a) == FisherYatesFrom(a, Len(a) - 1)

RECURSIVE Compound(_, _)
\* equity = equity * (1 + returnRate), for each return in turn
Compound(rs, eq) ==
  IF rs = <<>> THEN eq ELSE Compound(Tail(rs), FMul(eq, FAdd(One, Head(rs))))

RECURSIVE SortAscending(_)
\* finalEquities.sort((a, b) => a - b); an array of NaN keeps its order
SortAscending(xs) ==
  IF xs = <<>> THEN <<>>
  ELSE LET front == SortAscending(SubSeq(xs, 1, Len(xs) - 1))
           x == xs[Len(xs)]
           k == Cardinality({i \in 1..Len(front) : FLe(front[i], x)})
       IN  SubSeq(front, 1, k) \o <<x>> \o SubSeq(front, k + 1, Len(front))

\* this.trades.push of a trade object that has a profitPercentage
RecordReturnTrade ==
  /\ pc = "start"
  /\ mcPc = "idle"
  /\ Len(trades) < MaxMcTrades
  /\ \E pct \in McProfitPercentages : trades' = Append(trades, ReturnTrade(pct))
  /\ UNCHANGED <<candles, signals, strategyKind, profile, stopLossPercent,
                 takeProfitPercent, positionSizePercent, currentBalance, equity,
                 maxDrawdown, position, pc, ci, sk, result, runNo, firstResult,
                 opens, fills, kellyOut, optVars, moreVars>>

RecordMcTrade == RecordTrade(MaxMcTrades, McProfits)

mcRest ==
  <<candles, signals, strategyKind, profile, stopLossPercent, takeProfitPercent,
    positionSizePercent, currentBalance, trades, equity, maxDrawdown, position,
    pc, ci, sk, result, runNo, firstResult, opens, fills, kellyOut, optVars, stratVars,
    evaluated, riskVars, cancelAt, serviceVars>>

\* runMonteCarloSimulation up to the loop over the simulations
MonteCarlo ==
  /\ mcPc = "idle"
  /\ IF Len(trades) = 0
     THEN /\ mcPc' = "done"
          /\ mcOut' = Failure("noTrades")
     ELSE /\ mcPc' = "trials"
          /\ UNCHANGED mcOut
  /\ UNCHANGED finalEquities
  /\ UNCHANGED mcRest

\* one simulation: shuffle, compound, record the terminal equity
Trial ==
  /\ mcPc = "trials"
  /\ Len(finalEquities) < MonteCarloSimulations
  /\ \E shuffledReturns \in ShuffleArray(Returns(trades)) :
       finalEquities' = Append(finalEquities, Compound(shuffledReturns, InitialBalance))
  /\ UNCHANGED <<mcPc, mcOut>>
  /\ UNCHANGED mcRest

\* runMonteCarloSimulation: what is read from the sorted finalEquities for
\* this.confidenceInterval and this.monteCarloSimulations
ReportedValues(sorted, confidenceInterval, simulations) ==
  LET n == RInt(simulations)
      lowerIndex == Floor(FMul(FDiv(FSub(One, confidenceInterval), RInt(2)), n))
      upperIndex == Floor(FMul(FDiv(FAdd(One, confidenceInterval), RInt(2)), n))
  IN  [ worstCase |-> At(sorted, 0),
        bestCase |-> At(sorted, Len(sorted) - 1),
        medianCase |-> At(sorted, Len(sorted) \div 2),
        lower |-> At(sorted, lowerIndex),
        upper |-> At(sorted, upperIndex) ]

\* after the loop: sort, the confidence interval, the result
Report ==
  /\ mcPc = "trials"
  /\ Len(finalEquities) >= MonteCarloSimulations
  /\ LET sorted == SortAscending(finalEquities)
     IN  /\ finalEquities' = sorted
         /\ mcOut' = [ success |-> TRUE, error |-> "",
                       summary |-> ReportedValues(sorted, ConfidenceInterval,
                                                  MonteCarloSimulations) ]
  /\ mcPc' = "done"
  /\ UNCHANGED mcRest

NextMonteCarlo ==
  \/ RecordMcTrade
  \/ RecordReturnTrade
  \/ MonteCarlo
  \/ Trial
  \/ Report

SpecMonteCarlo == InitHistory /\ [][NextMonteCarlo]_vars

(***************************************************************************)
(* SpecStrategy: a MovingAverageCrossover is constructed from params, its   *)
(* generateBacktestSignals is applied to a close series that rises and then *)
(* falls, and BacktestEngine.run replays the signals.  The volume, trend,   *)
(* MACD, band and price-action filters are switched off by the params.      *)
(* technicalindicators' SMA.calculate returns values.length - period + 1    *)
(* averages, the first one of values[0 .. period - 1], without padding.     *)
(***************************************************************************)
RsiPeriod == 14

\* x || d
OrDefault(x, d) == IF x = 0 THEN d ELSE x

StrategyParams ==
  [ shortPeriod : {-1, 0, 3, 5}, longPeriod : {0, 3, 5, 21}, useRsi : BOOLEAN,
    rsiOverbought : {0, 30, 70}, rsiOversold : {30},
    filterStrength : {"weak", "medium", "strong"} ]

\* the fields the constructor sets
Instance(ps) ==
  [ shortPeriod |-> OrDefault(ps.shortPeriod, 9),
    longPeriod |-> OrDefault(ps.longPeriod, 21),
    useRsi |-> ps.useRsi,
    rsiPeriod |-> IF "rsiPeriod" \in DOMAIN ps THEN OrDefault(ps.rsiPeriod, RsiPeriod)
                  ELSE RsiPeriod,
    rsiOverbought |-> OrDefault(ps.rsiOverbought, 70),
    rsiOversold |-> OrDefault(ps.rsiOversold, 30),
    useVolume |-> FALSE, useTrend |-> FALSE, useMacd |-> FALSE,
    useBollingerBands |-> FALSE, usePriceAction |-> FALSE,
    generateAdditionalSignals |-> IF "generateAdditionalSignals" \in DOMAIN ps
                                  THEN ps.generateAdditionalSignals ELSE FALSE,
    filterStrength |-> ps.filterStrength ]

\* validateParams throws
ValidateParamsThrows(st) ==
  \/ st.shortPeriod <= 0 \/ st.longPeriod <= 0
  \/ st.shortPeriod >= st.longPeriod
  \/ (st.useRsi /\ (st.rsiPeriod <= 0 \/ st.rsiOverbought <= st.rsiOversold))

\* the close series 1, 2, .., up, up - 1, .., up - down
Series(up, down) ==
  [i \in 1..(up + (IF down < up THEN down ELSE up - 1)) |->
                            IF i <= up THEN Candle(i, i, i)
                            ELSE Candle(2 * up - i, 2 * up - i, 2 * up - i)]

SeriesSet == {Series(up, down) : up \in 1..MaxRise, down \in 0..(MaxRise - 1)}

RECURSIVE SumSeq(_)
SumSeq(xs) == IF xs = <<>> THEN Zero ELSE RAdd(Head(xs), SumSeq(Tail(xs)))

\* technicalIndicators.sma: SMA.calculate({period, values})
Sma(values, period) ==
  IF Len(values) < period THEN <<>>
  ELSE [k \in 1..(Len(values) - period + 1) |->
          RDiv(SumSeq(SubSeq(values, k, k + period - 1)), RInt(period))]

\* the moving average of the period candles that end with candle i (0-based)
MaOfCandle(values, period, i) ==
  IF i + 1 < period THEN Undefined
  ELSE RDiv(SumSeq(SubSeq(values, i + 2 - period, i + 1)), RInt(period))

MaxOf(S) == CHOOSE x \in S : \A y \in S : y <= x

\* generateBacktestSignals: maxPeriod
MaxPeriod(st) == MaxOf({st.longPeriod, IF st.useRsi THEN st.rsiPeriod ELSE 0})

\* RSI.calculate returns values.length - period values: rsiValues[index] is defined
RsiDefined(st, closes, index) == index < Len(closes) - st.rsiPeriod

\* applyFilters: requiredPassCount for this.filterStrength and totalFilters
RequiredPassCount(filterStrength, totalFilters) ==
  IF filterStrength = "weak" THEN (IF totalFilters > 0 THEN 1 ELSE 0)
  ELSE IF filterStrength = "medium" THEN MaxOf({1, (totalFilters + 1) \div 2})
  ELSE IF filterStrength = "strong" THEN totalFilters
  ELSE (totalFilters + 1) \div 2

\* the rise and the fall of the close from candle k - 1 to candle k (0-based)
Gain(closes, k) ==
  LET change == RSub(closes[k + 1], closes[k]) IN IF RGt(change, Zero) THEN change ELSE Zero

Loss(closes, k) ==
  LET change == RSub(closes[k + 1], closes[k]) IN IF RLt(change, Zero) THEN RNeg(change) ELSE Zero

\* the smoothing step of one average: (previous * (period - 1) + x) / period
Smooth(previous, x, period) ==
  RDiv(RAdd(RMul(previous, RInt(period - 1)), x), RInt(period))

\* <<avgGain, avgLoss>> of candle period: the plain averages of the first
\* period gains and losses
FirstAverages(closes, period) ==
  <<RDiv(SumSeq([j \in 1..period |-> Gain(closes, j)]), RInt(period)),
    RDiv(SumSeq([j \in 1..period |-> Loss(closes, j)]), RInt(period))>>

RECURSIVE WilderAverages(_, _, _)
\* the smoothed averages <<avgGain, avgLoss>> of the candles period,
\* period + 1, ..., continued after the ones in averages
WilderAverages(closes, period, averages) ==
  LET k == period + Len(averages)
      last == averages[Len(averages)]
  IN  IF k >= Len(closes) THEN averages
      ELSE WilderAverages(closes, period,
                          Append(averages, <<Smooth(last[1], Gain(closes, k), period),
                                             Smooth(last[2], Loss(closes, k), period)>>))

\* a number that is not negative, rounded to two decimals
Round2(x) == Rat(Floor(RAdd(RMul(x, Hundred), Rat(1, 2))), 100)

\* 100 - 100 / (1 + avgGain / avgLoss), and 100 without losses
RsiOf(average) ==
  IF average[2] = Zero THEN Hundred
  ELSE Round2(RSub(Hundred, RDiv(Hundred, RAdd(One, RDiv(average[1], average[2])))))

\* technicalIndicators.rsi: RSI.calculate({period, values}), values.length - period
\* values, the first one for candle period
RsiValues(closes, period) ==
  IF Len(closes) <= period THEN <<>>
  ELSE LET averages == WilderAverages(closes, period, <<FirstAverages(closes, period)>>)
       IN  [k \in 1..(Len(closes) - period) |-> RsiOf(averages[k])]

\* applyFilters, with the RSI filter as the only one that can be enabled
ApplyFilters(st, signalType, index, closes) ==
  LET totalFilters == IF st.useRsi THEN 1 ELSE 0
      requiredPassCount == RequiredPassCount(st.filterStrength, totalFilters)
      rsi == At(RsiValues(closes, st.rsiPeriod), index)
      weak == st.filterStrength = "weak"
      oversoldThreshold == RInt(IF weak THEN st.rsiOversold + 10 ELSE st.rsiOversold)
      overboughtThreshold == RInt(IF weak THEN st.rsiOverbought - 10 ELSE st.rsiOverbought)
      passedCount ==
        IF /\ st.useRsi
           /\ RsiDefined(st, closes, index)
           /\ \/ signalType = "BUY" /\ FLe(rsi, oversoldThreshold)
              \/ signalType = "SELL" /\ FGe(rsi, overboughtThreshold)
        THEN 1 ELSE 0
  IN  passedCount >= requiredPassCount

\* generateAlternativeSignals: the RSI signal of candle index
GenerateAlternativeSignals(st, index, closes) ==
  LET rsi == At(RsiValues(closes, st.rsiPeriod), index)
  IN  IF st.useRsi /\ RsiDefined(st, closes, index)
      THEN IF FLe(rsi, RInt(st.rsiOversold - 10))
           THEN <<Sig("BUY", closes[index + 1], index, "")>>
           ELSE IF FGe(rsi, RInt(st.rsiOverbought + 10))
           THEN <<Sig("SELL", closes[index + 1], index, "")>>
           ELSE <<>>
      ELSE <<>>

\* shortPrev <= longPrev && shortCurrent > longCurrent
IsBullishCross(shortMa, longMa, i) ==
  /\ FLe(ToNumber(At(shortMa, i - 1)), ToNumber(At(longMa, i - 1)))
  /\ FGt(ToNumber(At(shortMa, i)), ToNumber(At(longMa, i)))

\* shortPrev >= longPrev && shortCurrent < longCurrent
IsBearishCross(shortMa, longMa, i) ==
  /\ FGe(ToNumber(At(shortMa, i - 1)), ToNumber(At(longMa, i - 1)))
  /\ FLt(ToNumber(At(shortMa, i)), ToNumber(At(longMa, i)))

RECURSIVE SignalsFrom(_, _, _, _, _)
\* the loop of generateBacktestSignals from candle i on
SignalsFrom(st, closes, shortMa, longMa, i) ==
  IF i >= Len(closes) THEN <<>>
  ELSE LET bull == IsBullishCross(shortMa, longMa, i)
           bear == IsBearishCross(shortMa, longMa, i)
           signalType == IF bull THEN "BUY" ELSE "SELL"
           here == IF (bull \/ bear) /\ ApplyFilters(st, signalType, i, closes)
                   THEN <<Sig(signalType, closes[i + 1], i, "")>> ELSE <<>>
           additionalSignals == IF st.generateAdditionalSignals
                                THEN GenerateAlternativeSignals(st, i, closes) ELSE <<>>
       IN  here \o additionalSignals \o SignalsFrom(st, closes, shortMa, longMa, i + 1)

GenerateBacktestSignals(st, cs) ==
  IF Len(cs) = 0 THEN <<>>
  ELSE LET closes == [i \in 1..Len(cs) |-> cs[i].close]
       IN  SignalsFrom(st, closes, Sma(closes, st.shortPeriod), Sma(closes, st.longPeriod),
                       MaxPeriod(st))

stratRest ==
  <<candles, strategyKind, profile, stopLossPercent, takeProfitPercent,
    positionSizePercent, currentBalance, trades, equity, maxDrawdown, position,
    pc, ci, sk, result, runNo, firstResult, opens, fills, kellyOut, optVars, mcVars,
    evaluated, riskVars, cancelAt, serviceVars>>

\* new MovingAverageCrossover(params)
Construct ==
  /\ stPc = "new"
  /\ \E ps \in StrategyParams :
       /\ ctorParams' = ps
       /\ IF ValidateParamsThrows(Instance(ps))
          THEN stPc' = "rejected" /\ strategy' = <<>>
          ELSE stPc' = "constructed" /\ strategy' = Instance(ps)
  /\ UNCHANGED <<signals, stratRest>>

\* strategy.generateBacktestSignals(candles)
Generate ==
  /\ stPc = "constructed"
  /\ signals' = GenerateBacktestSignals(strategy, candles)
  /\ stPc' = "generated"
  /\ UNCHANGED <<ctorParams, strategy, stratRest>>

\* BacktestEngine.run with the strategy, up to the candle loop
RunGenerated == stPc = "generated" /\ Run

InitStrategy ==
  /\ candles \in SeriesSet
  /\ strategyKind = "valid"
  /\ signals = <<>>
  /\ profile = BaseProfile
  /\ fitTable = <<>>
  /\ ctorParams = <<>>
  /\ Constructed

NextStrategy ==
  \/ Construct
  \/ Generate
  \/ RunGenerated
  \/ CheckStop
  \/ Signal
  \/ RecordEquity
  \/ Finish

SpecStrategy == InitStrategy /\ [][NextStrategy]_vars

(***************************************************************************)
(* SpecSizing: openPosition on an engine with a history of closed trades,   *)
(* with and without ATR position sizing, for an ATR value of zero and a     *)
(* positive one.                                                            *)
(***************************************************************************)
AtrProfile ==
  [improved |-> FALSE, useDynamicParameters |-> FALSE, useAtrPositionSizing |-> TRUE]

\* atrValues[signal.candleIndex]: a flat market, a moving one
AtrInputs == {Zero, RInt(3)}

\* signal.price: an asset quoted above one unit of the balance currency, one below
SizingPrices == {RInt(12), Rat(1, 2)}

\* one more closed trade of the history; calculateKellyCriterion counts and sums
\* the trades of its window, so the histories are listed in order of profit
RecordSizingTrade ==
  /\ pc = "start"
  /\ mcPc = "idle"
  /\ Len(trades) < MaxTrades
  /\ \E p \in KellyProfits :
       /\ IF trades = <<>> THEN TRUE ELSE RLe(trades[Len(trades)].profit, p)
       /\ trades' = Append(trades, HistoryTrade(p))
  /\ UNCHANGED <<candles, signals, strategyKind, profile, stopLossPercent,
                 takeProfitPercent, positionSizePercent, currentBalance, equity,
                 maxDrawdown, position, pc, ci, sk, result, runNo, firstResult,
                 opens, fills, kellyOut, optVars, moreVars>>

\* openPosition(signal, candles, atrValue)
Open ==
  /\ pc = "start"
  /\ mcPc = "idle"
  /\ \E t \in SignalTypes : \E atr \in AtrInputs : \E price \in SizingPrices :
       Assign(OpenPosition(Engine, Sig(t, price, 0, ""), atr))
  /\ pc' = "opened"
  /\ UNCHANGED <<inputVars, ci, sk, result>>

InitSizing ==
  /\ candles = <<>>
  /\ strategyKind = "valid"
  /\ signals = <<>>
  /\ profile \in {BaseProfile, AtrProfile}
  /\ fitTable = <<>>
  /\ ctorParams = <<>>
  /\ Constructed

NextSizing ==
  \/ RecordSizingTrade
  \/ Open

SpecSizing == InitSizing /\ [][NextSizing]_vars

(***************************************************************************)
(* SpecCancel: optimize runs while its caller, at some moment, wants it to  *)
(* stop (a cancellation request, or a deadline that passes).  optimize has  *)
(* no parameter and reads no state through which it could learn of it.      *)
(***************************************************************************)
\* the caller asks for the optimization to stop
RequestCancel ==
  /\ cancelAt = <<>>
  /\ optPc \in {"evaluate", "breed"}
  /\ cancelAt' = <<gen, evalIdx>>
  /\ UNCHANGED <<engineVars, kellyOut, optVars, mcVars, stratVars, evaluated, riskVars,
                 serviceVars>>

InitCancel ==
  /\ candles = <<Candle(12, 12, 12)>>
  /\ strategyKind = "valid"
  /\ signals = <<>>
  /\ profile = BaseProfile
  /\ fitTable \in [{p \in ParameterSets : ~CreateStrategyThrows(p)} -> Evaluations]
  /\ ctorParams = <<>>
  /\ Constructed

NextCancel ==
  \/ RequestCancel
  \/ Optimize
  \/ Evaluate
  \/ Select
  \/ Breed
  \/ NextGen

SpecCancel == InitCancel /\ [][NextCancel]_vars

(***************************************************************************)
(* SpecRisk: a RiskManager takes trades on successive days.                 *)
(***************************************************************************)
RiskProfits == {-40, 30}

RiskBalances == {1000}

NotAnObject == [profit |-> NaN, balance |-> Zero, object |-> FALSE]

RiskTrades ==
  {[profit |-> RInt(p), balance |-> Zero, object |-> TRUE] : p \in RiskProfits}
    \cup {NotAnObject}

riskRest ==
  <<engineVars, kellyOut, optVars, mcVars, stratVars, evaluated, cancelAt, serviceVars>>

\* setInitialBalance(balance)
SetInitialBalance ==
  /\ \E b \in RiskBalances :
       stats' = [stats EXCEPT !.initialBalance = RInt(b),
                              !.currentBalance = IF stats.currentBalance = Zero
                                                 THEN RInt(b) ELSE stats.currentBalance]
  /\ allowed' = "none"
  /\ UNCHANGED <<now, recorded, riskRest>>

\* a day passes
Midnight ==
  /\ now < MaxDay
  /\ now' = now + 1
  /\ allowed' = "none"
  /\ UNCHANGED <<stats, recorded, riskRest>>

\* recordTrade(trade)
RiskRecordTrade ==
  /\ Len(recorded) < MaxRiskTrades
  /\ \E trade \in RiskTrades :
       IF ~trade.object
       THEN allowed' = "false" /\ UNCHANGED <<stats, recorded>>
       ELSE LET st == CheckTimeBasedReset(stats, now)
                st1 == [st EXCEPT !.dailyProfit = FAdd(st.dailyProfit, trade.profit),
                                  !.weeklyProfit = FAdd(st.weeklyProfit, trade.profit),
                                  !.monthlyProfit = FAdd(st.monthlyProfit, trade.profit),
                                  !.currentBalance = IF trade.balance # Zero
                                                     THEN trade.balance
                                                     ELSE st.currentBalance]
            IN  /\ stats' = st1
                /\ recorded' = Append(recorded, [day |-> now, profit |-> trade.profit])
                /\ allowed' = IF CheckRiskViolation(st1) THEN "false" ELSE "true"
  /\ UNCHANGED <<now, riskRest>>

InitRisk ==
  /\ candles = <<>>
  /\ signals = <<>>
  /\ strategyKind = "valid"
  /\ profile = BaseProfile
  /\ fitTable = <<>>
  /\ ctorParams = <<>>
  /\ Constructed

NextRisk ==
  \/ SetInitialBalance
  \/ Midnight
  \/ RiskRecordTrade

SpecRisk == InitRisk /\ [][NextRisk]_vars

(***************************************************************************)
(* Properties of one call of run (checked under Spec).                     *)
(***************************************************************************)

\* C1: at every step of run at most one position is open: every execution of
\* openPosition but the last has been followed by a closePosition (one trade
\* each), and the last one is still open exactly when this.position is set.
C1_AtMostOnePosition ==
  opens = Len(trades) + (IF position # NoPosition THEN 1 ELSE 0)

\* C1 witness: a second position is open after the first one was closed
C1_Reopened == opens = 2 /\ Len(trades) = 1 /\ position # NoPosition

\* C2: after a successful run, finalBalance = initialBalance + the sum of the
\* profits of the recorded trades.
C2_FinalBalanceIsSumOfProfits ==
  (pc = "done" /\ result.success)
    => result.summary.finalBalance = FAdd(InitialBalance, SumProfit(trades))

C7_DrawdownInUnitInterval ==
  (pc = "done" /\ result.success)
    => /\ FGe(maxDrawdown, Zero) /\ FLe(maxDrawdown, One)
       /\ FGe(result.summary.maxDrawdownPercent, Zero)
       /\ FLe(result.summary.maxDrawdownPercent, Hundred)

\* C7: a run has ended with a drawdown above 1, taken at the price of a signal
\* while a short position was open
C7_DrawdownAboveOne ==
  /\ pc = "done" /\ result.success
  /\ FGt(maxDrawdown, One)
  /\ Len(trades) >= 1 /\ trades[1].type = "SELL"

OppositeSide(type) == IF type = "BUY" THEN "SELL" ELSE "BUY"

\* C10: every fill is the raw price times (1 + slippage) on the BUY side and
\* times (1 - slippage) on the SELL side; the k-th trade is entered on the side
\* of its position and exited on the opposite side, whatever closed it; and its
\* profit is units x (price difference in its favour) - entry fee - exit fee.
C10_FillsAndProfit ==
  /\ \A j \in 1..Len(fills) :
       fills[j].fill = IF fills[j].side = "BUY"
                       THEN RMul(fills[j].raw, RAdd(One, Slippage))
                       ELSE RMul(fills[j].raw, RSub(One, Slippage))
  /\ Len(fills) = Len(trades) + opens
  /\ \A k \in 1..Len(trades) :
       LET t == trades[k]
           entry == fills[2 * k - 1]
           exit == fills[2 * k]
           entryFee == RMul(RMul(t.units, t.entryPrice), Fee)
           exitFee == RMul(RMul(t.units, t.exitPrice), Fee)
           move == IF t.type = "BUY" THEN RSub(t.exitPrice, t.entryPrice)
                   ELSE RSub(t.entryPrice, t.exitPrice)
       IN  /\ entry.leg = "entry" /\ entry.side = t.type /\ entry.fill = t.entryPrice
           /\ exit.leg = "exit" /\ exit.side = OppositeSide(t.type)
           /\ exit.fill = t.exitPrice
           /\ t.profit = RSub(RSub(RMul(t.units, move), entryFee), exitFee)

\* C10 witness: a long trade closed by its stop-loss, then a short trade closed
\* at the end of the data
C10_LongAndShortClosed ==
  /\ pc = "done" /\ Len(trades) = 2
  /\ trades[1].type = "BUY" /\ trades[1].exitReason = "STOP_LOSS"
  /\ trades[2].type = "SELL" /\ trades[2].exitReason = "SIGNAL"

(***************************************************************************)
(* Properties of repeated calls of run (checked under SpecTwice).          *)
(***************************************************************************)

\* C3: the second call of run on one instance, with the same candles and the
\* same strategy, returns what the first call returned.
C3_SecondRunSameResult ==
  (pc = "done" /\ runNo = 2) => result = firstResult

(***************************************************************************)
(* Properties of generateSummary (checked under SpecSummary).              *)
(***************************************************************************)
RECURSIVE SumProfitOver(_, _)
\* the sum of the profits of the trades at the positions in I
SumProfitOver(ts, I) ==
  IF I = {} THEN Zero
  ELSE LET i == CHOOSE j \in I : TRUE
       IN  RAdd(ts[i].profit, SumProfitOver(ts, I \ {i}))

\* C8: for every trade list the profitFactor of the summary is >= 0; it is the
\* sentinel when there is a winning trade and no losing trade, it is
\* totalWinnings / totalLosses when there are winning and losing trades and the
\* losses are not zero, and it is 0 when there are no trades.
C8_ProfitFactorCases ==
  pc = "summarized" =>
    LET W == {i \in 1..Len(trades) : trades[i].profit[1] > 0}
        L == {i \in 1..Len(trades) : trades[i].profit[1] <= 0}
        totalWinnings == SumProfitOver(trades, W)
        totalLosses == RAbs(SumProfitOver(trades, L))
        profitFactor == result.summary.profitFactor
    IN  /\ IsFinite(profitFactor)
        /\ profitFactor[1] >= 0
        /\ (L = {} /\ W # {}) => profitFactor = MaxSafeInteger
        /\ (W # {} /\ L # {} /\ totalLosses # Zero)
             => profitFactor = RDiv(totalWinnings, totalLosses)
        /\ trades = <<>> => profitFactor = Zero

\* C8 witness: a summary of winning and losing trades whose profitFactor is a ratio
C8_RatioOfWinsToLosses ==
  /\ pc = "summarized"
  /\ result.summary.winningTrades = 2
  /\ result.summary.losingTrades = 2
  /\ result.summary.profitFactor = Rat(4, 3)

(***************************************************************************)
(* Properties of calculateKellyCriterion (checked under SpecKelly).        *)
(***************************************************************************)

\* C9: calculateKellyCriterion returns a value in [0.1, 1.0] for every trade
\* history, those of 10 or more trades without winning trades, without losing
\* trades or with profits of exactly zero included, and 0.5 for fewer than 10 trades.
C9_KellyInRange ==
  pc = "sized" =>
    /\ FGe(kellyOut, Rat(1, 10))
    /\ FLe(kellyOut, One)
    /\ Len(trades) < KellyMinTrades => kellyOut = Rat(1, 2)

\* C9: a history of KellyMinTrades trades of profit zero was given to calculateKellyCriterion
C9_AllZeroHistorySized ==
  /\ pc = "sized"
  /\ Len(trades) = KellyMinTrades
  /\ \A i \in 1..Len(trades) : trades[i].profit = Zero
  /\ IsNaN(kellyOut)

(***************************************************************************)
(* Properties of StrategyOptimizer.optimize (checked under SpecOptimizer). *)
(***************************************************************************)

\* C6: for every generation g before the last, the best fitness among the
\* parameter sets evaluated in generation g+1 is at least the best fitness among
\* those evaluated in generation g; this holds from the first evaluation of
\* generation g+1 on, and when that generation is cut short.
C6_BestFitnessNeverDrops ==
  /\ \A g \in 1..(Len(genBest) - 1) : genBest[g + 1] >= genBest[g]
  /\ (gen >= 1 /\ Len(genBest) = gen /\ results # <<>>)
       => MaxFitness(results) >= genBest[gen]

\* C6 witness: a second generation was evaluated and did better than the first
C6_SecondGenerationImproved ==
  /\ Len(genBest) >= 2
  /\ genBest[2] > genBest[1]

(***************************************************************************)
(* Properties of runMonteCarloSimulation (checked under SpecMonteCarlo).   *)
(***************************************************************************)

\* the trade history is not empty and all its trades are the same profitable trade
IdenticalProfitableTrades ==
  /\ trades # <<>>
  /\ \A i \in 1..Len(trades) : trades[i] = trades[1]
  /\ trades[1].profit[1] > 0

\* C11: the Monte Carlo simulation of a history of N trades of the same positive
\* return ends every trial with the same terminal equity: worstCase, medianCase
\* and bestCase are equal and both confidence bounds equal that value.
C11_IdenticalTradesOneEquity ==
  (mcPc = "done" /\ IdenticalProfitableTrades)
    => /\ mcOut.success
       /\ FEq(mcOut.summary.worstCase, mcOut.summary.medianCase)
       /\ FEq(mcOut.summary.medianCase, mcOut.summary.bestCase)
       /\ FEq(mcOut.summary.lower, mcOut.summary.worstCase)
       /\ FEq(mcOut.summary.upper, mcOut.summary.worstCase)

\* C11: the simulation of identical profitable trades, recorded as closePosition
\* records them, has ended with NaN as its worst case
C11_RecordedTradesGiveNaN ==
  /\ mcPc = "done"
  /\ IdenticalProfitableTrades
  /\ Len(trades) = 2
  /\ ProfitPercentage(trades[1]) = Undefined
  /\ IsNaN(mcOut.summary.worstCase)

(***************************************************************************)
(* Properties of generateBacktestSignals (checked under SpecStrategy).      *)
(***************************************************************************)
Closes == [i \in 1..Len(candles) |-> candles[i].close]

\* the closes rise strictly for at least n candles and then fall strictly for at least n
RisesThenFalls(n) ==
  \E k \in (n + 1)..(Len(candles) - n) :
    /\ \A i \in 1..(k - 1) : RLt(Closes[i], Closes[i + 1])
    /\ \A i \in k..(Len(candles) - 1) : RLt(Closes[i + 1], Closes[i])

\* the short average of candle i crosses the long average of candle i upwards
CrossesUpAt(i) ==
  /\ FLe(ToNumber(MaOfCandle(Closes, strategy.shortPeriod, i - 1)),
         ToNumber(MaOfCandle(Closes, strategy.longPeriod, i - 1)))
  /\ FGt(ToNumber(MaOfCandle(Closes, strategy.shortPeriod, i)),
         ToNumber(MaOfCandle(Closes, strategy.longPeriod, i)))

CrossesDownAt(i) ==
  /\ FGe(ToNumber(MaOfCandle(Closes, strategy.shortPeriod, i - 1)),
         ToNumber(MaOfCandle(Closes, strategy.longPeriod, i - 1)))
  /\ FLt(ToNumber(MaOfCandle(Closes, strategy.shortPeriod, i)),
         ToNumber(MaOfCandle(Closes, strategy.longPeriod, i)))

SignalsOfType(t) == SelectSeq(signals, LAMBDA s : s.type = t)

CrossoverOnly ==
  /\ strategy.shortPeriod = 3 /\ strategy.longPeriod = 5
  /\ ~strategy.useRsi

\* C12: on closes that rise strictly and then fall strictly, a (3, 5) crossover
\* gives exactly one BUY and exactly one SELL, each at the candle where the short
\* average of that candle crosses the long average of that candle.
C12_OneBuyOneSellAtTheCrossings ==
  (stPc = "generated" /\ pc = "start" /\ CrossoverOnly /\ RisesThenFalls(6))
    => /\ Len(SignalsOfType("BUY")) = 1
       /\ Len(SignalsOfType("SELL")) = 1
       /\ CrossesUpAt(SignalsOfType("BUY")[1].candleIndex)
       /\ CrossesDownAt(SignalsOfType("SELL")[1].candleIndex)

\* the (3, 5) crossover without a filter has looked at 7 rising and 6 falling closes
C12_RiseAndFallGenerated ==
  /\ stPc = "generated" /\ pc = "start" /\ CrossoverOnly /\ RisesThenFalls(6)
  /\ strategy.filterStrength = "weak"
  /\ signals = <<>>

(***************************************************************************)
(* Properties of optimize's result (checked under SpecOptimizer).           *)
(***************************************************************************)
\* C13: allResults holds one entry for every configuration evaluated with success
\* in any generation, ordered by fitness descending.
C13_AllResultsHoldsEveryEvaluation ==
  (optPc = "done" /\ optResult.success)
    => LET all == optResult.summary.allResults
       IN  /\ \A r \in evaluated : \E i \in 1..Len(all) : all[i] = r
           /\ \A i \in 1..(Len(all) - 1) : all[i].fitness >= all[i + 1].fitness

\* optimize has returned after two generations that each evaluated with success
C13_OnlyLastGenerationReturned ==
  /\ optPc = "done" /\ optResult.success
  /\ gen = Generations - 1
  /\ \E r \in evaluated :
       \A i \in 1..Len(optResult.summary.allResults) : optResult.summary.allResults[i] # r

\* C14: an evaluation that fails inside optimize (the strategy cannot be
\* constructed, or the backtest fails) only leaves that evaluation out: optimize
\* goes on and returns success.
C14_FailedEvaluationIsSkipped ==
  (optPc = "done" /\ Len(candles) > 0) => optResult.success

\* createStrategy threw for a configuration of the population after another
\* configuration had been evaluated with success
C14_InvalidConfigurationEndsOptimize ==
  /\ optPc = "done" /\ Len(candles) > 0
  /\ evaluated # {}
  /\ evalIdx <= Len(population) /\ CreateStrategyThrows(population[evalIdx])
  /\ ~optResult.success /\ optResult.error = "invalidParams"

(***************************************************************************)
(* Properties of the MovingAverageCrossover constructor (SpecStrategy).     *)
(***************************************************************************)
\* C15: the constructor fails when the params have shortPeriod >= longPeriod, a
\* period that is zero or negative, or rsiOverbought <= rsiOversold.
C15_InvalidParamsRejected ==
  (/\ stPc # "new"
   /\ \/ ctorParams.shortPeriod >= ctorParams.longPeriod
      \/ ctorParams.shortPeriod <= 0
      \/ ctorParams.longPeriod <= 0
      \/ ctorParams.rsiOverbought <= ctorParams.rsiOversold)
    => stPc = "rejected"

\* a strategy was constructed from params whose shortPeriod is zero
C15_ZeroPeriodConstructed ==
  /\ stPc = "constructed"
  /\ ctorParams.shortPeriod = 0 /\ ctorParams.longPeriod > 0
  /\ ctorParams.rsiOverbought > ctorParams.rsiOversold
  /\ strategy.shortPeriod = 9

(***************************************************************************)
(* Positions and trades of one run (checked under Spec).                    *)
(***************************************************************************)
\* one step of a run appends exactly one trade and leaves the recorded ones alone
OneTradeAppended ==
  /\ Len(trades') = Len(trades) + 1
  /\ SubSeq(trades', 1, Len(trades)) = trades

\* C16: every position opened in a run is closed exactly once; each close appends
\* exactly one trade, which never changes afterwards; when run returns with
\* success no position is open and there are as many trades as positions opened.
C16_EveryPositionClosedOnce ==
  /\ []((pc = "done" /\ result.success) => (position = NoPosition /\ Len(trades) = opens))
  /\ [][pc # "start" =>
          /\ (trades' # trades) => (position # NoPosition /\ position' = NoPosition
                                    /\ OneTradeAppended)
          /\ (position # NoPosition /\ position' # position)
               => (position' = NoPosition /\ OneTradeAppended)]_vars

\* a run that opened two positions, the second one closed by the forced close
\* after the last candle, has returned
C16_TwoOpenedTwoClosed ==
  /\ pc = "done" /\ result.success
  /\ opens = 2 /\ Len(trades) = 2
  /\ trades[2].exitCandleIndex = Len(candles) - 1

(***************************************************************************)
(* A run on candles too short for the warm-up (checked under SpecStrategy). *)
(***************************************************************************)
TooShortForWarmUp == Len(candles) > 0 /\ Len(candles) <= MaxPeriod(strategy)

\* C17: on a non-empty candle sequence no longer than the largest enabled
\* indicator period generateBacktestSignals returns no signal, and run returns
\* success with zero trades, finalBalance = initialBalance, winRate 0 and
\* profitFactor 0.
C17_WarmUpOnlyRunIsEmpty ==
  (stPc = "generated" /\ TooShortForWarmUp)
    => /\ signals = <<>>
       /\ pc = "done"
            => /\ result.success
               /\ result.summary.totalTrades = 0
               /\ trades = <<>>
               /\ result.summary.finalBalance = InitialBalance
               /\ result.summary.winRate = Zero
               /\ result.summary.profitFactor = Zero

\* run has returned for five candles and a (3, 5) crossover without a filter
C17_FiveCandlesRun ==
  /\ stPc = "generated" /\ pc = "done"
  /\ CrossoverOnly /\ Len(candles) = 5
  /\ result.success /\ result.summary.totalTrades = 0

(***************************************************************************)
(* Properties of RiskManager.recordTrade (checked under SpecRisk).          *)
(***************************************************************************)
RECURSIVE ProfitSince(_, _)
\* the profit of the recorded trades that fall into the window W of days
ProfitSince(rs, W) ==
  IF rs = <<>> THEN Zero
  ELSE RAdd(IF Head(rs).day \in W THEN Head(rs).profit ELSE Zero, ProfitSince(Tail(rs), W))

Today == {now}

ThisWeek == {d \in 0..MaxDay : GetWeekNumber(d) = GetWeekNumber(now)}

ThisMonth == {d \in 0..MaxDay : GetMonth(d) = GetMonth(now)}

\* the loss of the window is more than maxLoss percent of the initial balance
LossExceeds(W, maxLoss) ==
  LET profit == ProfitSince(recorded, W)
  IN  /\ RLt(profit, Zero)
      /\ RGt(RMul(RAbs(profit), Hundred), RMul(RInt(maxLoss), stats.initialBalance))

LimitExceeded ==
  \/ LossExceeds(Today, MaxDailyLoss)
  \/ LossExceeds(ThisWeek, MaxWeeklyLoss)
  \/ LossExceeds(ThisMonth, MaxMonthlyLoss)

\* C18: recordTrade returns false whenever the loss realized in the current day,
\* week or month exceeds the maximum configured for that window, and true
\* otherwise.
C18_RecordTradeFollowsLimits ==
  allowed # "none" => (allowed = "false" <=> LimitExceeded)

\* a manager whose initial balance was never set took a losing trade and allowed it
C18_LossWithoutInitialBalance ==
  /\ allowed = "true"
  /\ stats.initialBalance = Zero
  /\ Len(recorded) = 1 /\ RLt(recorded[1].profit, Zero)
  /\ recorded[1].day = now

(***************************************************************************)
(* Cancellation of optimize (checked under SpecCancel).                     *)
(***************************************************************************)
\* C19: a running optimization can be cancelled between evaluations: after the
\* request no further evaluation starts, and the best result of the last
\* completed generation is returned as a valid result.
C19_NoEvaluationAfterCancel ==
  /\ []((optPc = "done" /\ cancelAt # <<>> /\ genBest # <<>>) => optResult.success)
  /\ [][cancelAt # <<>> => (evalIdx' = evalIdx /\ gen' = gen /\ evaluated' = evaluated)]_vars

\* optimize was asked to stop before the second evaluation of the first
\* generation and has run all its generations
C19_RanToTheEndAfterCancel ==
  /\ cancelAt = <<0, 2>>
  /\ optPc = "done" /\ optResult.success
  /\ gen = Generations - 1
  /\ evalIdx > PopulationSize

(***************************************************************************)
(* The size of an opened position (checked under SpecSizing).               *)
(***************************************************************************)
\* positionSize of openPosition, from fee = positionSize * this.fee
PositionSize(pos) == FDiv(pos.fee, Fee)

\* C20: every position size computed when a position is opened, on the percent
\* and Kelly path and on the ATR path, is finite and not negative, also for an
\* ATR of zero and for histories without a loser, without a winner or with zero
\* profits only.
C20_PositionSizeFiniteNonNegative ==
  pc = "opened"
    => /\ IsFinite(PositionSize(position))
       /\ ~IsNaN(PositionSize(position))
       /\ FGe(PositionSize(position), Zero)

\* a position was opened on the percent path after ten trades of profit zero
C20_OpenedAfterZeroProfits ==
  /\ pc = "opened"
  /\ Len(trades) = KellyMinTrades
  /\ \A i \in 1..Len(trades) : trades[i].profit = Zero
  /\ IsNaN(position.units)

(***************************************************************************)
(* Stop-loss and take-profit within one candle (checked under Spec).        *)
(***************************************************************************)
\* the range of the candle reaches the stop-loss level of the position
StopBreached(pos, candle) ==
  IF pos.type = "BUY" THEN FLe(candle.low, pos.stopLossPrice)
  ELSE FGe(candle.high, pos.stopLossPrice)

\* the range of the candle reaches the take-profit level of the position
TargetBreached(pos, candle) ==
  IF pos.type = "BUY" THEN FGe(candle.high, pos.takeProfitPrice)
  ELSE FLe(candle.low, pos.takeProfitPrice)

\* C21: when the range of one candle reaches both the stop-loss and the
\* take-profit level of the open position, the position is closed exactly once,
\* from the stop-loss price, with exitReason STOP_LOSS; the check of one candle
\* never closes twice, for a long and for a short position.
C21_StopLossBeforeTakeProfit ==
  [][(pc = "check" /\ position # NoPosition) =>
       /\ Len(trades') <= Len(trades) + 1
       /\ (StopBreached(position, candles[ci + 1]) /\ TargetBreached(position, candles[ci + 1]))
            => /\ position' = NoPosition
               /\ OneTradeAppended
               /\ trades'[Len(trades')].exitReason = "STOP_LOSS"
               /\ trades'[Len(trades')].exitCandleIndex = ci
               /\ trades'[Len(trades')].exitPrice =
                    AdjustPrice(position.stopLossPrice,
                                IF position.type = "BUY" THEN "SELL" ELSE "BUY")]_vars

\* a short position was stopped out on a candle whose low also reached its target
C21_ShortStoppedOnWideCandle ==
  \E i \in 1..Len(trades) :
    /\ trades[i].type = "SELL" /\ trades[i].exitReason = "STOP_LOSS"
    /\ FLe(candles[trades[i].exitCandleIndex + 1].low,
           FMul(trades[i].entryPrice, FSub(One, FDiv(TakeProfitPercent, Hundred))))

(***************************************************************************)
(* The order of the steps within one candle (checked under Spec).           *)
(***************************************************************************)
IsStopOrTarget(trade) == trade.exitReason \in {"STOP_LOSS", "TAKE_PROFIT"}

\* C22: within candle i the stop-loss / take-profit check comes first, then the
\* signals of candle i in stream order, then the equity record: a position
\* opened on candle i is never stopped out or taken profit on candle i, and
\* after a stop or target exit on candle i a signal of candle i finds no position.
C22_CheckThenSignalsThenEquity ==
  /\ \A i \in 1..Len(trades) :
       IsStopOrTarget(trades[i]) => trades[i].entryCandleIndex < trades[i].exitCandleIndex
  /\ (pc = "check" /\ position # NoPosition) => position.entryCandleIndex < ci
  /\ pc \in {"check", "signals"} => Len(equity) = ci
  /\ (pc = "signals" /\ sk = 0 /\ trades # <<>>
        /\ IsStopOrTarget(trades[Len(trades)]) /\ trades[Len(trades)].exitCandleIndex = ci)
       => position = NoPosition
  /\ (pc = "signals" /\ sk # 0) =>
       /\ signals[sk].candleIndex = ci
       /\ \A j \in 1..(sk - 1) : signals[j].candleIndex <= ci

\* a position was stopped out on the second candle and a signal of that candle
\* has opened the next one
C22_ReopenedAfterStop ==
  /\ trades # <<>> /\ IsStopOrTarget(trades[Len(trades)])
  /\ trades[Len(trades)].exitCandleIndex = 1
  /\ position # NoPosition /\ position.entryCandleIndex = 1

(***************************************************************************)
(* What processSignal changes (checked under Spec).                         *)
(***************************************************************************)
\* the signal that the next Signal step applies
Pending == signals[NextSignal(ci, sk)]

\* C23: a signal of the type of the open position leaves position, balance and
\* trade list as they are; only a signal of the opposite type closes the
\* position, and a signal opens a position only when none is open.
C23_SameSideSignalIgnored ==
  [][(pc = "signals" /\ strategyKind = "valid" /\ NextSignal(ci, sk) # 0) =>
       /\ (position # NoPosition /\ Pending.type = position.type)
            => (position' = position /\ currentBalance' = currentBalance /\ trades' = trades)
       /\ (trades' # trades)
            => (position # NoPosition /\ Pending.type # position.type
                /\ position' = NoPosition)
       /\ (position' # NoPosition /\ position' # position) => position = NoPosition]_vars

\* a second signal of the same type came while the position of the first was open
C23_SameSideSignalSeen ==
  /\ pc = "signals" /\ sk = 2
  /\ signals[1].type = signals[2].type /\ signals[1].candleIndex = signals[2].candleIndex
  /\ position # NoPosition /\ opens = 1 /\ trades = <<>>

(***************************************************************************)
(* The equity curve of a run (checked under Spec).                          *)
(***************************************************************************)
\* C24: a successful run over n candles has recorded one EquityPoint per
\* candle, in candle order, whatever the number of signals.
C24_OneEquityPointPerCandle ==
  (pc = "done" /\ result.success)
    => /\ Len(equity) = Len(candles)
       /\ \A i \in 1..Len(equity) : equity[i].time = i - 1

\* C24: a run whose strategy produced no signal has returned success without
\* any EquityPoint
C24_NoSignalsNoCurve ==
  /\ pc = "done" /\ result.success
  /\ strategyKind = "valid" /\ signals = <<>>
  /\ Len(candles) = NumCandles /\ equity = <<>>

(***************************************************************************)
(* The running maximum drawdown (checked under Spec).                       *)
(***************************************************************************)
\* C25: maxDrawdown never decreases during a run, and after a successful run
\* it is at least the peak-to-trough drawdown of the recorded equity curve.
C25_MaxDrawdownNeverDecreases ==
  /\ []((pc = "done" /\ result.success) => FGe(maxDrawdown, CurveDrawdown(equity)))
  /\ [][pc # "start" => FGe(maxDrawdown', maxDrawdown)]_vars

\* C25: at the end of the candles a position is open and the drawdown measured
\* at a signal is above the drawdown of the recorded curve, which the closing
\* of the position is about to store
C25_MeasuredAboveCurve ==
  /\ pc = "final" /\ position # NoPosition
  /\ Len(equity) >= 2
  /\ FGt(maxDrawdown, CurveDrawdown(equity))

(***************************************************************************)
(* The members of the next generation (checked under SpecOptimizer).        *)
(***************************************************************************)
\* generateNextGeneration is about to return nextGeneration
Returning == optPc = "breed" /\ Len(nextGeneration) >= PopulationSize

\* params could have come out of crossover and mutate for two of the parents
IsChildOf(params, parents) ==
  \E i1, i2 \in 1..Len(parents) :
    \E fromFirst, redrawn \in [ParamNames -> BOOLEAN] :
      \E drawn \in ParameterSets :
        params = Mutate(Crossover(parents[i1], parents[i2], fromFirst), redrawn, drawn)

\* the number of parameter sets generateNextGeneration copies
EliteCount(parents) == IF Len(parents) > 1 THEN 2 ELSE Len(parents)

\* C26 as stated: the first two members of the next generation are the two
\* highest-fitness parameter sets of the current generation, and every other
\* member is a child of two parents of the top half.
C26_TwoBestCarriedOver ==
  Returning =>
    /\ \E i, j \in 1..Len(results) :
         /\ i # j
         /\ nextGeneration[1] = results[i].params
         /\ nextGeneration[2] = results[j].params
         /\ results[i].fitness >= results[j].fitness
         /\ \A k \in 1..Len(results) : k \notin {i, j} => results[k].fitness <= results[j].fitness
    /\ \A k \in 3..Len(nextGeneration) :
         IsChildOf(nextGeneration[k], Parents(TopHalf(results)))

\* C26, amended: the next generation begins with the best parents of the top
\* half in rank order, two of them when the top half has two, and they stay as
\* they are while children are appended; every other member is a child of two
\* parents of the top half.
C26_TopParentsCarriedOver ==
  /\ [](optPc = "breed" =>
          LET parents == Parents(TopHalf(results))
              elite == EliteCount(parents)
          IN  /\ Len(parents) >= 1
              /\ \A i \in 1..(Len(results) - 1) : results[i].fitness >= results[i + 1].fitness
              /\ Len(nextGeneration) >= elite
              /\ \A k \in 1..elite : nextGeneration[k] = results[k].params
              /\ \A k \in (elite + 1)..Len(nextGeneration) :
                   IsChildOf(nextGeneration[k], parents))
  /\ [][(optPc = "breed" /\ optPc' = "breed")
          => SubSeq(nextGeneration', 1, Len(nextGeneration)) = nextGeneration]_vars
  /\ [][(optPc = "breed" /\ optPc' = "evaluate") => population' = nextGeneration]_vars

\* two parents of different fitness were carried over and a child that is
\* neither of them completes the next generation
C26_TwoElitesAndAChild ==
  /\ Returning
  /\ Len(results) = 3 /\ results[1].fitness > results[2].fitness
  /\ nextGeneration[1] = results[1].params /\ nextGeneration[2] = results[2].params
  /\ nextGeneration[3] \notin {results[1].params, results[2].params}

(***************************************************************************)
(* The values of the parameters (checked under SpecOptimizer).              *)
(***************************************************************************)
\* Number.isInteger
IsInteger(x) == x[2] = 1

\* mutant of RandomParameter: the draw of a real-valued parameter for every range
RandomParameterNoFloor(range, u) == FAdd(FMul(u, FSub(range.max, range.min)), range.min)

\* generateInitialPopulation and mutate: the value drawn for a parameter of
\* the range, where u is what Math.random() returned
RandomParameter(range, u) ==
  IF IsInteger(range.min) /\ IsInteger(range.max)
  THEN FAdd(RInt(Floor(FMul(u, FAdd(FSub(range.max, range.min), One)))), range.min)
  ELSE FAdd(FMul(u, FSub(range.max, range.min)), range.min)

\* values of Math.random(), which lie in [0, 1)
UnitDraws == {Zero, Rat(1, 3), Rat(1, 2), Rat(99, 100)}

\* the ranges of ParamRanges and further integer and real ranges
RangeSamples ==
  {[min |-> RInt(ParamRanges[n].min), max |-> RInt(ParamRanges[n].max)] : n \in ParamNames}
    \cup {[min |-> RInt(-3), max |-> RInt(4)], [min |-> RInt(5), max |-> RInt(5)],
          [min |-> Rat(1, 2), max |-> Rat(3, 2)], [min |-> Zero, max |-> Rat(5, 2)]}

\* every parameter of the set is an integer of its range
WithinRanges(params) ==
  \A n \in ParamNames :
    /\ params[n] \in Int
    /\ ParamRanges[n].min <= params[n] /\ params[n] <= ParamRanges[n].max

\* C27: in every generation every parameter of every parameter set lies in
\* its [min, max] range, and a parameter of an integer range is an integer; the
\* draws of the initial population and of mutate (evaluated before optimize
\* draws the first population) stay in the range and are integers for integer
\* bounds.
C27_ParametersWithinRange ==
  /\ \A k \in 1..Len(population) : WithinRanges(population[k])
  /\ \A k \in 1..Len(nextGeneration) : WithinRanges(nextGeneration[k])
  /\ optPc = "idle" =>
       /\ \A range \in RangeSamples : \A u \in UnitDraws :
            LET v == RandomParameter(range, u)
            IN  /\ FGe(v, range.min) /\ FLe(v, range.max)
                /\ (IsInteger(range.min) /\ IsInteger(range.max)) => IsInteger(v)
       /\ \A n \in ParamNames :
            {RandomParameter([min |-> RInt(ParamRanges[n].min),
                              max |-> RInt(ParamRanges[n].max)], u) :
               u \in UnitDraws} = {RInt(v) : v \in RandomValues(n)}

\* a mutated child completes the next generation: one of its parameters has a
\* value that no parent has
C27_MutatedChild ==
  /\ Returning
  /\ LET parents == Parents(TopHalf(results))
     IN  \E k \in (EliteCount(parents) + 1)..Len(nextGeneration) : \E n \in ParamNames :
           \A i \in 1..Len(parents) : nextGeneration[k][n] # parents[i][n]

(***************************************************************************)
(* Termination and the order of the generations.                            *)
(***************************************************************************)
\* what a backtest yields: failure or success; which parameter set succeeds
\* decides how far optimize gets, the fitness values do not
LiveEvaluations == {[success |-> FALSE, fitness |-> 0], [success |-> TRUE, fitness |-> 1]}

InitOptimizerLive ==
  /\ candles = <<Candle(12, 12, 12)>>
  /\ strategyKind = "valid"
  /\ signals = <<>>
  /\ profile = BaseProfile
  /\ fitTable \in [{p \in ParameterSets : ~CreateStrategyThrows(p)} -> LiveEvaluations]
  /\ ctorParams = <<>>
  /\ Constructed

\* optimize has no await and its loops are bounded: a call that has begun
\* always takes its next step
SpecOptimizerLive == InitOptimizerLive /\ [][NextOptimizer]_vars /\ WF_vars(NextOptimizer)

\* every backtest of the run succeeds
NoRunFails == \A p \in DOMAIN fitTable : fitTable[p].success

\* C28: optimize terminates with a result; every generation has exactly
\* PopulationSize parameter sets, evaluated one by one; generation g + 1 begins
\* only when all of generation g are evaluated and ranked; and when no
\* evaluation fails, Generations generations are evaluated in full.
C28_OptimizeTerminates ==
  /\ <>(optPc = "done")
  /\ [](optPc = "done" =>
          IF optResult.success
          THEN best # NoBest /\ optResult = OptSuccess(best, results)
          ELSE optResult \in {OptFailure("invalidParams"), OptFailure("TypeError")})
  /\ [](optPc \in {"evaluate", "breed"} =>
          /\ Len(population) = PopulationSize
          /\ gen \in 0..(Generations - 1)
          /\ evalIdx \in 1..(PopulationSize + 1))
  /\ []((optPc = "done" /\ NoRunFails
           /\ optResult # OptFailure("invalidParams"))
          => /\ optResult.success
             /\ gen = Generations - 1
             /\ evalIdx = PopulationSize + 1)
  /\ [][/\ evalIdx' # evalIdx => \/ evalIdx' = evalIdx + 1 /\ gen' = gen
                                 \/ evalIdx' = 1 /\ optPc \in {"idle", "breed"}
        /\ gen' # gen =>
             /\ gen' = gen + 1
             /\ evalIdx = PopulationSize + 1
             /\ Len(nextGeneration) = PopulationSize
             /\ \A i \in 1..(Len(results) - 1) : results[i].fitness >= results[i + 1].fitness
             /\ population' = nextGeneration]_vars

\* optimize returned success after the last member of the last generation,
\* with every backtest successful
C28_AllGenerationsEvaluated ==
  /\ optPc = "done" /\ optResult.success /\ NoRunFails
  /\ gen = Generations - 1 /\ evalIdx = PopulationSize + 1
  /\ Len(results) = PopulationSize

(***************************************************************************)
(* The values reported by runMonteCarloSimulation (checked under            *)
(* SpecMonteCarlo).                                                         *)
(***************************************************************************)
\* values of options.confidenceInterval within (0, 1]
ConfidenceOptions == {Rat(1, 2), Rat(19, 20), One}

\* every trade of the list has a profitPercentage
ReturnsRecorded == \A i \in 1..Len(trades) : "profitPercentage" \in DOMAIN trades[i]

\* the reported values are defined and in the order
\* worstCase <= lower <= medianCase <= upper <= bestCase
InOrder(r) ==
  /\ \A f \in DOMAIN r : r[f] # Undefined
  /\ FLe(r.worstCase, r.lower) /\ FLe(r.lower, r.medianCase)
  /\ FLe(r.medianCase, r.upper) /\ FLe(r.upper, r.bestCase)

\* the terminal equities of the first n simulations, sorted
SortedOf(n) == SortAscending(SubSeq(finalEquities, 1, n))

\* C29: for every number of simulations >= 1 and every confidenceInterval in
\* (0, 1], the reported values are defined elements of the sorted list and
\* worstCase <= lower <= medianCase <= upper <= bestCase.
C29_ReportedValuesInOrder ==
  (mcPc = "done" /\ mcOut.success /\ ReturnsRecorded) =>
    /\ InOrder(mcOut.summary)
    /\ \A n \in 1..Len(finalEquities) : \A c \in ConfidenceOptions :
         InOrder(ReportedValues(SortedOf(n), c, n))

\* C29: with confidenceInterval 1 the upper bound is read past the end of the
\* sorted list, whatever the number of simulations
C29_UpperBoundPastTheEnd ==
  /\ mcPc = "done" /\ mcOut.success /\ ReturnsRecorded
  /\ InOrder(mcOut.summary)
  /\ Len(finalEquities) = MonteCarloSimulations
  /\ \A n \in 1..Len(finalEquities) :
       ReportedValues(SortedOf(n), One, n).upper = Undefined

(***************************************************************************)
(* SpecRunMonteCarlo: ImprovedBacktestEngine.run with the option            *)
(* runMonteCarloSimulation: the backtest, then the simulation over the      *)
(* trades it recorded.                                                      *)
(***************************************************************************)
ImprovedProfile ==
  [improved |-> TRUE, useDynamicParameters |-> FALSE, useAtrPositionSizing |-> FALSE]

InitRunMonteCarlo == EngineInit({ImprovedProfile}, {"valid"})

\* run: super.run succeeded, runMonteCarloSimulation(baseResult.trades) begins
RunMonteCarloSimulation ==
  /\ pc = "done"
  /\ result.success
  /\ MonteCarlo

NextRunMonteCarlo ==
  \/ ImprovedRun
  \/ Run
  \/ CheckStop
  \/ Signal
  \/ RecordEquity
  \/ Finish
  \/ RunMonteCarloSimulation
  \/ Trial
  \/ Report

SpecRunMonteCarlo == InitRunMonteCarlo /\ [][NextRunMonteCarlo]_vars

\* C30: every trade that closePosition records carries the return that
\* runMonteCarloSimulation reads, and the simulation over the trades of a
\* completed backtest reports defined numeric terminal equities.
C30_RecordedTradesCarryReturn ==
  /\ \A i \in 1..Len(trades) :
       ProfitPercentage(trades[i]) # Undefined /\ IsFinite(ProfitPercentage(trades[i]))
  /\ (mcPc = "done" /\ mcOut.success) =>
       /\ \A i \in 1..Len(finalEquities) : IsFinite(finalEquities[i])
       /\ \A f \in DOMAIN mcOut.summary :
            mcOut.summary[f] # Undefined /\ IsFinite(mcOut.summary[f])

\* C30: the simulation over the trades of a successful backtest has ended and
\* every terminal equity is NaN
C30_BacktestTradesGiveNaN ==
  /\ pc = "done" /\ result.success /\ Len(trades) >= 1
  /\ \A i \in 1..Len(trades) : ProfitPercentage(trades[i]) = Undefined
  /\ mcPc = "done" /\ mcOut.success
  /\ Len(finalEquities) = MonteCarloSimulations
  /\ \A i \in 1..Len(finalEquities) : IsNaN(finalEquities[i])
  /\ IsNaN(mcOut.summary.medianCase)

(***************************************************************************)
(* The filter vote of applyFilters (checked under SpecStrategy).            *)
(***************************************************************************)
\* the filters applyFilters counts
FilterNames == {"rsi", "volume", "trend", "macd", "bollingerBands", "priceAction"}

\* requiredVotes as stated: weak 1, medium ceil(total / 2), strong total
RequiredVotes(filterStrength, total) ==
  IF filterStrength = "weak" THEN 1
  ELSE IF filterStrength = "medium" THEN (total + 1) \div 2
  ELSE total

\* C31: applyFilters lets a signal pass exactly when the number of enabled
\* filters voting for it is >= requiredVotes, which is 1 for weak,
\* ceil(total / 2) for medium and total for strong, for 0 to 6 enabled filters.
C31_PassesOnRequiredVotes ==
  stPc \in {"constructed", "generated"} =>
    \A total \in 0..Cardinality(FilterNames) : \A passedCount \in 0..total :
      (passedCount >= RequiredPassCount(strategy.filterStrength, total))
        <=> (passedCount >= RequiredVotes(strategy.filterStrength, total))

\* C31: a strategy of strength medium without any filter has generated no
\* signal from candles on which the crossover alone gives one
C31_MediumWithoutFiltersBlocks ==
  /\ stPc = "generated"
  /\ strategy.filterStrength = "medium" /\ ~strategy.useRsi
  /\ signals = <<>>
  /\ GenerateBacktestSignals([strategy EXCEPT !.filterStrength = "strong"], candles) # <<>>

(***************************************************************************)
(* SpecAdditional: a strategy with short periods, so that the RSI is        *)
(* defined inside the series, with and without generateAdditionalSignals.   *)
(***************************************************************************)
AdditionalParams ==
  [ shortPeriod : {1}, longPeriod : {2}, useRsi : BOOLEAN, rsiPeriod : {2},
    rsiOverbought : {70}, rsiOversold : {30}, filterStrength : {"weak", "medium"},
    generateAdditionalSignals : BOOLEAN ]

AdditionalCloses == {5, 10, 40}

AdditionalSeries ==
  UNION {[1..n -> {Candle(c, c, c) : c \in AdditionalCloses}] : n \in 4..MaxSeriesLen}

InitAdditional ==
  /\ candles \in AdditionalSeries
  /\ strategyKind = "valid"
  /\ signals = <<>>
  /\ profile = BaseProfile
  /\ fitTable = <<>>
  /\ ctorParams = <<>>
  /\ Constructed

\* new MovingAverageCrossover(params)
ConstructAdditional ==
  /\ stPc = "new"
  /\ \E ps \in AdditionalParams :
       /\ ctorParams' = ps
       /\ IF ValidateParamsThrows(Instance(ps))
          THEN stPc' = "rejected" /\ strategy' = <<>>
          ELSE stPc' = "constructed" /\ strategy' = Instance(ps)
  /\ UNCHANGED <<signals, stratRest>>

NextAdditional ==
  \/ ConstructAdditional
  \/ Generate

SpecAdditional == InitAdditional /\ [][NextAdditional]_vars

\* C32: in what generateBacktestSignals returns, candleIndex is strictly
\* increasing from each signal to the next, also with generateAdditionalSignals.
C32_CandleIndexStrictlyIncreasing ==
  stPc = "generated" =>
    \A k \in 1..(Len(signals) - 1) : signals[k].candleIndex < signals[k + 1].candleIndex

\* C32: a crossover signal and an RSI signal were generated for the same candle
C32_TwoSignalsOfOneCandle ==
  /\ stPc = "generated"
  /\ strategy.generateAdditionalSignals
  /\ \E k \in 1..(Len(signals) - 1) : signals[k].candleIndex = signals[k + 1].candleIndex

(***************************************************************************)
(* The risk of a position sized by ATR (checked under SpecSizing).          *)
(***************************************************************************)
\* the balance openPosition read, before the entry fee was deducted
BalanceAtOpening == FAdd(currentBalance, position.fee)

\* riskAmount of openPosition
RiskAmount == FMul(BalanceAtOpening, FDiv(MaxRiskPerTradePercent, Hundred))

\* the distance of the entry price to the stop-loss price of the position
StopDistance == FAbs(FSub(position.entryPrice, position.stopLossPrice))

\* units * stop distance: what the position loses when it leaves at its stop
LossAtStop == FMul(position.units, StopDistance)

\* the position was opened on the ATR branch of openPosition
AtrSized ==
  /\ pc = "opened"
  /\ profile.useAtrPositionSizing
  /\ \E atr \in AtrInputs \ {Zero} : StopDistance = FMul(atr, AtrMultiplier)

\* C33: a position opened with ATR position sizing loses, when it leaves exactly
\* at its stop-loss price, at most balance * maxRiskPerTradePercent / 100 of the
\* balance at opening, whatever the entry price and the positive ATR.
C33_LossAtStopWithinRisk == AtrSized => FLe(LossAtStop, RiskAmount)

\* an ATR-sized position in an asset priced below one, whose loss at the stop is
\* riskAmount / entryPrice and so more than riskAmount
C33_CheapAssetRisksMore ==
  /\ AtrSized
  /\ RLt(position.entryPrice, One)
  /\ LossAtStop = FDiv(RiskAmount, position.entryPrice)
  /\ FGt(LossAtStop, RiskAmount)

(***************************************************************************)
(* The fee field of a recorded trade (checked under Spec).                  *)
(***************************************************************************)
\* closePosition has just recorded a trade
TradeRecorded == position # NoPosition /\ Len(trades') = Len(trades) + 1

\* what closePosition adds to the balance before the exit fee: the value sold for
\* a long position, entryValue - exitValue for a short one
GrossCredit(t) ==
  IF t.type = "BUY" THEN FMul(t.units, t.exitPrice)
  ELSE FSub(FMul(t.units, t.entryPrice), FMul(t.units, t.exitPrice))

\* the exit fee that the closing step took from the balance
ExitFeeDeducted(t) == FSub(GrossCredit(t), FSub(currentBalance', currentBalance))

\* C34: the fee field of every recorded trade, long or short, is the entry fee
\* that openPosition took from the balance plus the exit fee that closePosition
\* took from it.
C34_FeeFieldIsFeesDeducted ==
  [][TradeRecorded =>
       LET t == trades'[Len(trades')]
       IN  t.fee = FAdd(position.fee, ExitFeeDeducted(t))]_vars

\* a recorded short trade whose fee field is the entry fee plus the fee on the
\* entry value, while the exit fee in its profit was charged on the exit value
C34_ShortFeeOnEntryValue ==
  \E k \in 1..Len(trades) :
    LET t == trades[k]
        entryValue == FMul(t.units, t.entryPrice)
        exitValue == FMul(t.units, t.exitPrice)
    IN  /\ t.type = "SELL"
        /\ t.fee = FAdd(FMul(entryValue, Fee), FMul(entryValue, Fee))
        /\ t.profit = FSub(FSub(FSub(entryValue, exitValue), FMul(exitValue, Fee)),
                           FMul(entryValue, Fee))
        /\ t.fee # FAdd(FMul(entryValue, Fee), FMul(exitValue, Fee))

(***************************************************************************)
(* The trials of the Monte Carlo simulation (checked under SpecMonteCarlo). *)
(***************************************************************************)
\* how often x occurs in the list
Occurrences(xs, x) == Cardinality({i \in 1..Len(xs) : xs[i] = x})

\* the two lists hold the same entries, each as often
SameEntries(xs, ys) ==
  /\ Len(xs) = Len(ys)
  /\ \A i \in 1..Len(xs) : Occurrences(xs, xs[i]) = Occurrences(ys, xs[i])

RECURSIVE ProductOfGrowth(_)
\* the product of (1 + return) over the list, taken from its end
ProductOfGrowth(rs) ==
  IF rs = <<>> THEN One
  ELSE FMul(ProductOfGrowth(SubSeq(rs, 1, Len(rs) - 1)), FAdd(One, rs[Len(rs)]))

\* initialBalance times the product of (1 + return) over the trades
TerminalEquity == FMul(InitialBalance, ProductOfGrowth(Returns(trades)))

\* C35: every order shuffleArray can produce holds each return of the input
\* exactly once; compounding it ends at initialBalance times the product of
\* (1 + return); so every trial of a batch ends at that one terminal equity; and
\* no trial changes the caller's list of trades.
C35_TrialsEndAtTheProduct ==
  /\ [](mcPc \in {"trials", "done"} =>
         /\ \A shuffledReturns \in ShuffleArray(Returns(trades)) :
              /\ SameEntries(shuffledReturns, Returns(trades))
              /\ Compound(shuffledReturns, InitialBalance) = TerminalEquity
         /\ \A i \in 1..Len(finalEquities) : finalEquities[i] = TerminalEquity)
  /\ [][mcPc = "trials" => trades' = trades]_vars

\* a batch over three different returns has finished: the shuffle had six
\* orders to choose from
C35_BatchOverDifferentReturns ==
  /\ mcPc = "done" /\ mcOut.success
  /\ Len(finalEquities) = MonteCarloSimulations
  /\ ReturnsRecorded
  /\ Len(trades) >= 2
  /\ Cardinality(ShuffleArray(Returns(trades))) >= 2

(***************************************************************************)
(* SpecAuth: middleware/auth.js.  Requests with a session cookie, login,    *)
(* logout and the cleanup interval, in any order, while time passes.  Every *)
(* handler runs to its end before the next one starts.  Time is counted in  *)
(* quarters of an hour.                                                     *)
(***************************************************************************)
\* 30 * 60 * 1000 ms
SessionLifetime == 2

\* 15 * 60 * 1000 ms
CleanupInterval == 1

MaxClock == 4

\* what generateSecureKey returns: strings of hex digits
SessionKeys == {"a1", "b2"}

\* names that every object inherits from Object.prototype
InheritedNames == {"constructor"}

\* req.cookies?.sessionId: a generated key, an inherited name, no cookie ("")
Cookies == SessionKeys \cup InheritedNames \cup {""}

Credentials == {<<"admin", "password">>, <<"admin", "secret">>}

\* sessions[sessionId] is truthy: an own property, or a member that the store
\* object inherits
HasSession(sessionId) == sessionId \in DOMAIN sessions \/ sessionId \in InheritedNames

\* sessions[sessionId].expires: <<the time>>, <<>> when undefined
ExpiresOf(sessionId) ==
  IF sessionId \in DOMAIN sessions THEN <<sessions[sessionId].expires>>
  ELSE inheritedExpires

\* session.expires < Date.now()
IsExpired(expires, time) == expires # <<>> /\ expires[1] < time

\* delete sessions[sessionId]
DeleteSession(sessionId) == [k \in DOMAIN sessions \ {sessionId} |-> sessions[k]]

\* session.expires = Date.now() + 30 * 60 * 1000
ExtendedTo(sessionId, time) ==
  [sessions EXCEPT ![sessionId] = [@ EXCEPT !.expires = time + SessionLifetime]]

\* sessionAuth(req, res, next)
SessionAuth(sessionId) ==
  IF sessionId = "" \/ ~HasSession(sessionId)
  THEN /\ lastAuth' = [sessionId |-> sessionId, authenticated |-> FALSE]
       /\ UNCHANGED <<sessions, inheritedExpires, ended>>
  ELSE IF IsExpired(ExpiresOf(sessionId), clock)
  THEN /\ sessions' = DeleteSession(sessionId)
       /\ ended' = ended \cup {sessionId}
       /\ lastAuth' = [sessionId |-> sessionId, authenticated |-> FALSE]
       /\ UNCHANGED inheritedExpires
  ELSE /\ IF sessionId \in DOMAIN sessions
          THEN /\ sessions' = ExtendedTo(sessionId, clock)
               /\ UNCHANGED inheritedExpires
          ELSE /\ inheritedExpires' = <<clock + SessionLifetime>>
               /\ UNCHANGED sessions
       /\ lastAuth' = [sessionId |-> sessionId, authenticated |-> TRUE]
       /\ UNCHANGED ended

engineSide ==
  <<engineVars, kellyOut, optVars, mcVars, stratVars, evaluated, riskVars, cancelAt>>

authRest == <<engineSide, apiVars>>

Request ==
  /\ \E sessionId \in Cookies : SessionAuth(sessionId)
  /\ UNCHANGED <<clock, lastCleanup, issued, authRest>>

\* login(username, password); the key generated is one that was not generated before
Login ==
  /\ \E c \in Credentials :
       IF c = <<"admin", "password">>
       THEN \E sessionId \in SessionKeys \ issued :
              /\ sessions' = [k \in DOMAIN sessions \cup {sessionId} |->
                                IF k = sessionId
                                THEN [username |-> c[1], created |-> clock,
                                      expires |-> clock + SessionLifetime]
                                ELSE sessions[k]]
              /\ issued' = issued \cup {sessionId}
       ELSE UNCHANGED <<sessions, issued>>
  /\ UNCHANGED <<inheritedExpires, clock, lastCleanup, ended, lastAuth, authRest>>

\* logout(sessionId)
Logout ==
  /\ \E sessionId \in Cookies :
       IF sessionId # "" /\ HasSession(sessionId)
       THEN /\ sessions' = DeleteSession(sessionId)
            /\ ended' = ended \cup {sessionId}
       ELSE UNCHANGED <<sessions, ended>>
  /\ UNCHANGED <<inheritedExpires, clock, lastCleanup, issued, lastAuth, authRest>>

\* the callback of setInterval, every 15 minutes
Cleanup ==
  /\ clock >= lastCleanup + CleanupInterval
  /\ lastCleanup' = lastCleanup + CleanupInterval
  /\ sessions' = [k \in {j \in DOMAIN sessions : ~IsExpired(<<sessions[j].expires>>, clock)} |->
                    sessions[k]]
  /\ UNCHANGED <<inheritedExpires, clock, issued, ended, lastAuth, authRest>>

\* a quarter of an hour passes
Tick ==
  /\ clock < MaxClock
  /\ clock' = clock + 1
  /\ UNCHANGED <<sessions, inheritedExpires, lastCleanup, issued, ended, lastAuth, authRest>>

InitServices ==
  /\ candles = <<>>
  /\ signals = <<>>
  /\ strategyKind = "valid"
  /\ profile = BaseProfile
  /\ fitTable = <<>>
  /\ ctorParams = <<>>
  /\ Constructed

NextAuth ==
  \/ Request
  \/ Login
  \/ Logout
  \/ Cleanup
  \/ Tick

SpecAuth == InitServices /\ [][NextAuth]_vars

\* C36: sessionAuth authenticates a request only when its session id was returned
\* by a successful login, was not logged out and has not expired; a successful
\* authentication moves the expiry to 30 minutes after the request; and an id
\* that was logged out or rejected as expired is never authenticated again.
C36_OnlyLiveLoginSessions ==
  [][\A sessionId \in Cookies :
       (SessionAuth(sessionId) /\ lastAuth'.authenticated) =>
         /\ sessionId \in issued
         /\ sessionId \notin ended
         /\ sessionId \in DOMAIN sessions
         /\ sessions[sessionId].expires >= clock
         /\ sessions'[sessionId].expires = clock + SessionLifetime]_vars

\* a request was authenticated although nobody has logged in
C36_AuthenticatedWithoutLogin ==
  /\ lastAuth # <<>>
  /\ lastAuth.authenticated
  /\ lastAuth.sessionId \in InheritedNames
  /\ issued = {}

(***************************************************************************)
(* SpecApiCall: one call of executeApiCall(apiCall, errorPrefix, retries),  *)
(* whose apiCall settles each time it is called.                            *)
(***************************************************************************)
\* retries = 3: the default of the parameter
DefaultRetries == 3

MaxRetries == 3

\* error.code of what apiCall throws: rate limit, IP ban, server errors and
\* their neighbours, a client error, an error without a code
ErrorCodes == {<<429>>, <<-1003>>, <<500>>, <<599>>, <<499>>, <<600>>, <<>>}

\* mutant of IsRetryableError: every error is retried
IsRetryableErrorAny(code) == TRUE

\* executeApiCall: isRetryableError
IsRetryableError(code) ==
  /\ code # <<>>
  /\ \/ code[1] = 429
     \/ code[1] = -1003
     \/ code[1] >= 500 /\ code[1] < 600

\* Math.min(1000 * Math.pow(2, 3 - retries), 10000), for retries up to 6
RetryDelay(r) ==
  LET delay == IF r <= 3 THEN 1000 * 2 ^ (3 - r) ELSE 1000 \div 2 ^ (r - 3)
  IN  IF delay < 10000 THEN delay ELSE 10000

callRest == <<engineSide, authVars, reinitVars, candleVars>>

\* executeApiCall(apiCall, errorPrefix, retries): apiCall is called
Call ==
  /\ callPc = "idle"
  /\ \E r \in 0..MaxRetries :
       /\ retries' = r
       /\ callRetries' = r
  /\ attempts' = 1
  /\ callPc' = "attempt"
  /\ UNCHANGED <<delays, errors, thrown, callRest>>

\* await apiCall() returns
ApiCallReturns ==
  /\ callPc = "attempt"
  /\ callPc' = "resolved"
  /\ UNCHANGED <<retries, callRetries, attempts, delays, errors, thrown, callRest>>

\* await apiCall() throws: the catch block
ApiCallThrows ==
  /\ callPc = "attempt"
  /\ \E code \in ErrorCodes :
       /\ errors' = Append(errors, code)
       /\ IF IsRetryableError(code) /\ retries > 0
          THEN /\ delays' = Append(delays, RetryDelay(retries))
               /\ callPc' = "waiting"
               /\ UNCHANGED thrown
          ELSE /\ thrown' = [code |-> code]
               /\ callPc' = "rejected"
               /\ UNCHANGED delays
  /\ UNCHANGED <<retries, callRetries, attempts, callRest>>

\* the timer of the wait fires: executeApiCall(apiCall, errorPrefix, retries - 1)
RetryCall ==
  /\ callPc = "waiting"
  /\ retries' = retries - 1
  /\ attempts' = attempts + 1
  /\ callPc' = "attempt"
  /\ UNCHANGED <<callRetries, delays, errors, thrown, callRest>>

NextApiCall ==
  \/ Call
  \/ ApiCallReturns
  \/ ApiCallThrows
  \/ RetryCall

\* apiCall settles and timers fire
SpecApiCall == InitServices /\ [][NextApiCall]_vars /\ WF_vars(NextApiCall)

\* the waits of a call with the default number of retries
DefaultDelays == <<1000, 2000, 4000>>

Settled == callPc \in {"resolved", "rejected"}

\* the error codes after which a call is tried again
RetryableCodes == {<<429>>, <<-1003>>} \cup {<<c>> : c \in 500..599}

\* C37: executeApiCall calls apiCall at most retries + 1 times and always
\* settles; it tries again only after an error with code 429, -1003 or 500..599,
\* after 1 s, 2 s and 4 s for the default of three retries; any other error, and
\* a retryable error when no retry is left, is thrown at once with the code of
\* that error.
C37_BoundedRetriesThenSettles ==
  /\ [](callPc # "idle" =>
         /\ attempts <= callRetries + 1
         /\ attempts = callRetries - retries + 1
         /\ \A i \in 1..Len(errors) :
              (i < Len(errors) \/ callPc = "waiting") => errors[i] \in RetryableCodes
         /\ Len(delays) = attempts - (IF callPc = "waiting" THEN 0 ELSE 1)
         /\ callRetries = DefaultRetries => delays = SubSeq(DefaultDelays, 1, Len(delays))
         /\ callPc = "rejected" =>
              /\ thrown = [code |-> errors[Len(errors)]]
              /\ Len(errors) = attempts
              /\ errors[Len(errors)] \notin RetryableCodes \/ attempts = callRetries + 1)
  /\ (callPc = "attempt" ~> Settled)

\* the default call has failed four times with retryable errors, after waits of
\* 1 s, 2 s and 4 s, and has thrown the last error
C37_RetriesUsedUp ==
  /\ callPc = "rejected"
  /\ callRetries = DefaultRetries
  /\ attempts = 4
  /\ delays = DefaultDelays
  /\ thrown = [code |-> <<429>>]

(***************************************************************************)
(* SpecReinit: calls of reinitialize(options) that overlap in any way,      *)
(* while time passes; every connection test settles.                        *)
(***************************************************************************)
\* options with apiKey and apiSecret, and options that fail the validation
ApiOptions == {"key1", "key2", "invalid"}

\* 5 * 60 * 1000 ms
MaxQueueAge == 300000

\* a step of the clock in ms
QuarterHour == 900000

\* mutant of IsBusy: the lock is not looked at
IsBusyNever == FALSE

\* reinitialize: if (isInitializing)
IsBusy == isInitializing

\* reinitialize: age > MAX_QUEUE_AGE, the queue being filtered at the given time
IsStale(item) == (clock - item.timestamp) * QuarterHour > MaxQueueAge

\* the initializations that are between isInitializing = true and finally
Running == {c \in 1..MaxCallers : callers[c].state \in {"test", "queueTest"}}

Rejected(cs, cset) ==
  [c \in 1..MaxCallers |-> IF c \in cset THEN [cs[c] EXCEPT !.state = "rejected"] ELSE cs[c]]

\* the while loop over the queue, up to its next await or to the return, and the
\* finally block
ContinueQueue(c, cs, q) ==
  IF q = <<>>
  THEN /\ callers' = [cs EXCEPT ![c].state = "resolved", ![c].got = client,
                                ![c].item = <<>>]
       /\ initializationQueue' = <<>>
       /\ isInitializing' = FALSE
  ELSE /\ callers' = [cs EXCEPT ![c].state = "queueTest", ![c].item = Head(q)]
       /\ initializationQueue' = Tail(q)
       /\ UNCHANGED isInitializing

reinitRest == <<engineSide, authVars, callVars, candleVars>>

\* reinitialize(options) is called
Reinitialize ==
  /\ \E c \in 1..MaxCallers : \E options \in ApiOptions :
       /\ callers[c].state = "none"
       /\ \A b \in 1..(c - 1) : callers[b].state # "none"
       /\ IF options = "invalid"
          THEN /\ callers' = [callers EXCEPT ![c].state = "rejected", ![c].options = options]
               /\ UNCHANGED <<isInitializing, initializationQueue, client>>
          ELSE IF IsBusy
          THEN /\ initializationQueue' =
                    Append(initializationQueue,
                           [options |-> options, caller |-> c, timestamp |-> clock])
               /\ callers' = [callers EXCEPT ![c].state = "queued", ![c].options = options]
               /\ UNCHANGED <<isInitializing, client>>
          ELSE /\ isInitializing' = TRUE
               /\ client' = options
               /\ callers' = [callers EXCEPT ![c].state = "test", ![c].options = options,
                                             ![c].before = client]
               /\ UNCHANGED initializationQueue
  /\ UNCHANGED <<clock, reinitRest>>

\* the connection test of the running initialization succeeds
TestReturns ==
  /\ \E c \in 1..MaxCallers :
       /\ callers[c].state = "test"
       /\ LET stale == {initializationQueue[i].caller :
                          i \in {j \in 1..Len(initializationQueue) :
                                   IsStale(initializationQueue[j])}}
              Fresh(item) == ~IsStale(item)
          IN  ContinueQueue(c, Rejected(callers, stale), SelectSeq(initializationQueue, Fresh))
  /\ UNCHANGED <<client, clock, reinitRest>>

\* the connection test of the running initialization fails: catch and finally
TestThrows ==
  /\ \E c \in 1..MaxCallers :
       /\ callers[c].state = "test"
       /\ callers' = Rejected(callers,
                       {c} \cup {initializationQueue[i].caller :
                                   i \in 1..Len(initializationQueue)})
  /\ initializationQueue' = <<>>
  /\ isInitializing' = FALSE
  /\ UNCHANGED <<client, clock, reinitRest>>

\* the connection test of a queued request succeeds: resolve(newClient)
QueuedTestReturns ==
  /\ \E c \in 1..MaxCallers :
       /\ callers[c].state = "queueTest"
       /\ LET item == callers[c].item
          IN  ContinueQueue(c, [callers EXCEPT ![item.caller].state = "resolved",
                                               ![item.caller].got = item.options],
                            initializationQueue)
  /\ UNCHANGED <<client, clock, reinitRest>>

\* the connection test of a queued request fails: reject(queueError)
QueuedTestThrows ==
  /\ \E c \in 1..MaxCallers :
       /\ callers[c].state = "queueTest"
       /\ ContinueQueue(c, Rejected(callers, {callers[c].item.caller}),
                        initializationQueue)
  /\ UNCHANGED <<client, clock, reinitRest>>

NextReinit ==
  \/ Reinitialize
  \/ TestReturns
  \/ TestThrows
  \/ QueuedTestReturns
  \/ QueuedTestThrows
  \/ Tick

\* every connection test settles
SpecReinit == InitServices /\ [][NextReinit]_vars /\ WF_vars(NextReinit)

\* the call has been resolved or rejected
IsSettled(c) == callers[c].state \in {"resolved", "rejected"}

Resolves(c) == callers[c].state # "resolved" /\ callers'[c].state = "resolved"

\* the call is rejected by this step
Rejects(c) == callers[c].state # "rejected" /\ callers'[c].state = "rejected"

\* C39: when a call of reinitialize resolves, whether it ran the initialization
\* or was queued behind another one, the client of the module is the one created
\* from its options; when a call fails, the client that was active before it
\* stays the client of the module.
C39_ActiveClientFollowsCalls ==
  [][\A c \in 1..MaxCallers :
       /\ Resolves(c) => client' = callers'[c].options
       /\ Rejects(c) =>
            client' = IF callers[c].state = "test" THEN callers[c].before ELSE client]_vars

\* the connection test of a call failed, and the client created from its options
\* has replaced the one from the configuration
C39_FailedClientIsActive ==
  /\ callers[1].state = "rejected"
  /\ callers[1].options = "key1"
  /\ callers[1].before = "config"
  /\ client = "key1"
  /\ callers[2].state = "none"

(***************************************************************************)
(* SpecCandles: one call of getCandles({startTime, endTime, limit}) against *)
(* an exchange that answers a request with the first limit candles whose    *)
(* open time lies in the requested range, or with an error.  Time is        *)
(* counted in candle intervals.                                             *)
(***************************************************************************)
\* getIntervalInMs(interval), the unit of time
IntervalMs == 1

\* limit
ChunkLimit == 2

\* startTime; zero would take the branch without a range
StartTime == 1

MaxEndTime == 6

\* errorCount >= 5
MaxConsecutiveErrors == 5

\* intervalMs * limit
MaxTimeRange == IntervalMs * ChunkLimit

\* Math.min(currentStartTime + maxTimeRange, endTime)
ChunkEndTime(start) ==
  IF start + MaxTimeRange < endTime THEN start + MaxTimeRange ELSE endTime

RECURSIVE Ascending(_)
\* the members of a set of times in ascending order
Ascending(times) ==
  IF times = {} THEN <<>>
  ELSE LET first == CHOOSE t \in times : \A u \in times : t <= u
       IN  <<first>> \o Ascending(times \ {first})

\* fetchCandlesChunk(symbol, interval, limit, startTime, endTime), when the
\* request succeeds
FetchCandlesChunk(start, end) ==
  LET inRange == Ascending({t \in market : start <= t /\ t <= end})
  IN  SubSeq(inRange, 1, IF Len(inRange) < ChunkLimit THEN Len(inRange) ELSE ChunkLimit)

\* mutant of NextStartTime: the next request starts at the last candle received
NextStartTimeAtLast(chunkCandles, chunkEndTime) ==
  IF Len(chunkCandles) > 0 THEN chunkCandles[Len(chunkCandles)] ELSE chunkEndTime

\* getCandles: currentStartTime after a chunk
NextStartTime(chunkCandles, chunkEndTime) ==
  IF Len(chunkCandles) > 0 THEN chunkCandles[Len(chunkCandles)] + IntervalMs
  ELSE chunkEndTime + 1

candlesRest == <<engineSide, authVars, callVars, reinitVars>>

\* getCandles is called with a range: one request, or the loop up to its first
\* request
GetCandles ==
  /\ candlesPc = "idle"
  /\ market' \in SUBSET (StartTime..MaxEndTime)
  /\ endTime' \in (StartTime + 1)..MaxEndTime
  /\ currentStartTime' = StartTime
  /\ candlesPc' = IF endTime' - StartTime <= MaxTimeRange THEN "single" ELSE "fetch"
  /\ UNCHANGED <<errorCount, allCandles, served, candlesRest>>

\* the only request of a short range succeeds
SingleReturns ==
  /\ candlesPc = "single"
  /\ allCandles' = FetchCandlesChunk(StartTime, endTime)
  /\ served' = Append(served, <<StartTime, endTime>>)
  /\ candlesPc' = "done"
  /\ UNCHANGED <<market, endTime, currentStartTime, errorCount, candlesRest>>

\* the only request of a short range fails
SingleThrows ==
  /\ candlesPc = "single"
  /\ candlesPc' = "failed"
  /\ UNCHANGED <<market, endTime, currentStartTime, errorCount, allCandles, served,
                 candlesRest>>

\* a chunk has arrived: the try block, the wait, and the test of the loop
ChunkReturns ==
  /\ candlesPc = "fetch"
  /\ LET chunkEndTime == ChunkEndTime(currentStartTime)
         chunkCandles == FetchCandlesChunk(currentStartTime, chunkEndTime)
     IN  /\ allCandles' = allCandles \o chunkCandles
         /\ currentStartTime' = NextStartTime(chunkCandles, chunkEndTime)
         /\ served' = Append(served, <<currentStartTime, chunkEndTime>>)
  /\ errorCount' = 0
  /\ candlesPc' = IF currentStartTime' < endTime THEN "fetch" ELSE "done"
  /\ UNCHANGED <<market, endTime, candlesRest>>

\* a chunk request has failed: the catch block, the wait of 2 s, continue
ChunkThrows ==
  /\ candlesPc = "fetch"
  /\ errorCount' = errorCount + 1
  /\ candlesPc' = IF errorCount' >= MaxConsecutiveErrors THEN "failed" ELSE "fetch"
  /\ UNCHANGED <<market, endTime, currentStartTime, allCandles, served, candlesRest>>

NextCandles ==
  \/ GetCandles
  \/ SingleReturns
  \/ SingleThrows
  \/ ChunkReturns
  \/ ChunkThrows

\* every request settles and every timer fires
SpecCandles == InitServices /\ [][NextCandles]_vars /\ WF_vars(NextCandles)

RECURSIVE ChunksOf(_)
\* the candles of the requests, one request after the other
ChunksOf(requests) ==
  IF requests = <<>> THEN <<>>
  ELSE FetchCandlesChunk(Head(requests)[1], Head(requests)[2]) \o ChunksOf(Tail(requests))

\* C40: the loop of getCandles ends; a chunk that arrives moves the start of the
\* next request forward, past its last candle or past the end of an empty chunk;
\* after a failure the same chunk is requested again; a success resets the count
\* of consecutive errors and the fifth consecutive failure ends the call with an
\* error; and the candles returned are those of the requests in the order of the
\* requests, each request starting where the one before it ended.
C40_PaginationTerminatesInOrder ==
  /\ (candlesPc = "fetch" ~> candlesPc \in {"done", "failed"})
  /\ [][candlesPc = "fetch" =>
          /\ errorCount' = 0 =>
               /\ currentStartTime' > currentStartTime
               /\ LET chunk == FetchCandlesChunk(currentStartTime,
                                                 ChunkEndTime(currentStartTime))
                  IN  IF chunk = <<>>
                      THEN currentStartTime' = ChunkEndTime(currentStartTime) + 1
                      ELSE currentStartTime' = chunk[Len(chunk)] + IntervalMs
               /\ candlesPc' \in {"fetch", "done"}
          /\ errorCount' # 0 =>
               /\ errorCount' = errorCount + 1
               /\ currentStartTime' = currentStartTime
               /\ allCandles' = allCandles
               /\ candlesPc' = IF errorCount' = 5 THEN "failed" ELSE "fetch"]_vars
  /\ [](candlesPc \in {"fetch", "done", "failed"} =>
          /\ errorCount <= 5
          /\ allCandles = ChunksOf(served)
          /\ \A i \in 1..(Len(allCandles) - 1) : allCandles[i] < allCandles[i + 1]
          /\ \A k \in 1..Len(served) :
               served[k][1] = IF k = 1 THEN StartTime
                              ELSE NextStartTime(FetchCandlesChunk(served[k - 1][1],
                                                                   served[k - 1][2]),
                                                 served[k - 1][2]))

\* a call over three chunks, one of them empty, has returned its candles
C40_ThreeChunksReturned ==
  /\ candlesPc = "done"
  /\ Len(served) = 3
  /\ \E k \in 1..3 : FetchCandlesChunk(served[k][1], served[k][2]) = <<>>
  /\ Len(allCandles) >= 2

====
